---- MODULE Spec2Model ----
(***************************************************************************)
(* ForwardTTS (TTS/tts/models/forward_tts.py): the alignment-and-expansion *)
(* core of the acoustic model.                                             *)
(*                                                                         *)
(* Tensors are sequences: a batch is a sequence of rows, a row a sequence  *)
(* over text units (T_en) or frames (T_de), a map a sequence of rows over  *)
(* frames.  Singleton axes of the code ([B, 1, T]) are dropped.            *)
(*                                                                         *)
(* Floats are fixed-point: the integer n stands for the real n / Den.      *)
(* Integer-valued tensors (frame counts, rounded durations) that the code  *)
(* keeps in float or int tensors are written Fx(d) where they meet floats. *)
(* Optional arguments are sets: None is {}, a supplied value v is {v}.     *)
(***************************************************************************)
EXTENDS Integers, Sequences, FiniteSets, TLC

\* ---------------------------------------------------------------- bounds
\* fixed-point denominator: n stands for n / Den
Den == 2
\* widest padded text input x.shape[1]
MaxTen == 3
\* largest integer duration of one text unit drawn as an input
MaxDur == 2
\* longest frame length y_lengths[b] drawn as an input
MaxTde == 4
\* largest exp(o_dr_log) drawn as a duration predictor output, in 1 / Den
MaxExp == 9
\* most text units / frames of an item whose alignment is searched
MaxMasText == 2
MaxMasFrames == 3
\* largest per-unit pitch / energy value and longest row drawn for the
\* pitch and energy predictors alone
MaxProsody == 2
MaxProsodyLen == 2
\* longest row drawn for format_durations alone
MaxFmtLen == 2
\* largest length_scale of a configuration, in 1 / Den
MaxLengthScale == 4
\* most text units / frames of an item of a training batch
MaxTrainText == 2
MaxTrainFrames == 2
\* widest input of an inference call
MaxInfLen == 2

\* tagger output: tokens of a sentence, characters of a word, tags
MaxTokens == 2
MaxWord == 2
MaxTags == 2

\* trainer.total_steps_done drawn for on_train_step_start
MaxSteps == 2

\* prosody passes with a ground-truth contour: text units, frames, values
MaxAvgText == 2
MaxAvgFrames == 5
MaxContour == 3

\* length vectors handed to sequence_mask: items, largest length
MaxMaskBatch == 2
MaxMaskLen == 5

\* ---------------------------------------------------------------- values
None == {}
Some(v) == {v}
Val(o) == CHOOSE v \in o : TRUE

Fx(n) == n * Den

Ones(n) == [i \in 1..n |-> 1]

\* a tensor is a value: t, computed once where it is assigned rather than
\* at each of its uses
Evaluated(t) == CHOOSE v \in {t} : v = v

\* name = t: the set a name of the code ranges over once t is assigned to it
One(t) == {Evaluated(t)}

\* the value of an expression over names assigned by One: in
\* Result({e : a \in One(t), b \in One(u)}) the code reads a = t; b = u; e
Result(S) == CHOOSE r \in S : TRUE

RECURSIVE SeqSum(_)
SeqSum(s) == IF s = <<>> THEN 0 ELSE s[1] + SeqSum(Tail(s))

SeqMax(s) == CHOOSE m \in {s[i] : i \in 1..Len(s)} : \A i \in 1..Len(s) : s[i] <= m

\* torch.cumsum along the text axis, read at index i (0 before the first unit)
cumsum(row, i) == SeqSum(SubSeq(row, 1, i))

\* sum of row i of a map / of column t of a map / of all its entries
RowSum(map, i) == SeqSum(map[i])
ColSum(map, t) == SeqSum([i \in 1..Len(map) |-> map[i][t]])
MapSum(map) == SeqSum([i \in 1..Len(map) |-> SeqSum(map[i])])

\* tensor.transpose(1, 2) of one batch item: [R, C] -> [C, R]
transpose(map, ncols) == [t \in 1..ncols |-> [i \in 1..Len(map) |-> map[i][t]]]

\* ------------------------------------------------- TTS.tts.utils.helpers
\* sequence_mask(lengths, max_len): [b, t] = 1 iff t < lengths[b]; max_len
\* omitted is the largest length (spec 4.1).  Frame t of the code is index
\* t + 1 here.
sequence_mask_inclusive(lengths, max_len) ==
    LET width == IF max_len = None THEN SeqMax(lengths) ELSE Val(max_len)
    IN  [b \in 1..Len(lengths) |->
            [t \in 1..width |-> IF t - 1 <= lengths[b] THEN 1 ELSE 0]]

sequence_mask(lengths, max_len) ==
    LET width == IF max_len = None THEN SeqMax(lengths) ELSE Val(max_len)
    IN  [b \in 1..Len(lengths) |->
            [t \in 1..width |-> IF t - 1 < lengths[b] THEN 1 ELSE 0]]

\* generate_path(duration, mask): unit i occupies the frames
\* [cumsum(duration)[i-1], cumsum(duration)[i]), intersected with mask
\* (spec 4.3 step 2).  duration is fixed-point, mask is [B, T_en, T_de].
generate_path(duration, mask) ==
    [b \in 1..Len(duration) |->
        [i \in 1..Len(duration[b]) |->
            [t \in 1..Len(mask[b][i]) |->
                IF /\ cumsum(duration[b], i - 1) <= Fx(t - 1)
                   /\ Fx(t - 1) < cumsum(duration[b], i)
                THEN mask[b][i][t]
                ELSE 0]]]

\* cumulative scores of the search: a number, or minus infinity for a cell
\* no path reaches
NegInf == [fin |-> FALSE, v |-> 0]
Fin(n) == [fin |-> TRUE, v |-> n]
Geq(a, b) == IF ~b.fin THEN TRUE ELSE a.fin /\ a.v >= b.v
Plus(a, n) == IF a.fin THEN Fin(a.v + n) ELSE NegInf

\* the search on one item with t_x text units and t_y frames (spec 4.2):
\* Q[j][i] is the best cumulative score of a path that starts at unit 1 and
\* is at unit i in frame j, each step staying or advancing by one.
\* mas_Q gives the columns of frames 1..j.
RECURSIVE mas_Q(_, _, _)
mas_Q(value, t_x, j) ==
    IF j = 1
    THEN << [i \in 1..t_x |-> IF i = 1 THEN Fin(value[1][1]) ELSE NegInf] >>
    ELSE LET before == mas_Q(value, t_x, j - 1)
             prev == before[j - 1]
         IN  Append(before,
                    [i \in 1..t_x |->
                        Plus(IF i = 1 \/ Geq(prev[i], prev[i - 1])
                             THEN prev[i] ELSE prev[i - 1],
                             value[i][j])])

\* the path read back from the last cell, staying on a tie: the units of
\* frames j..t_y, given the unit n of frame j
RECURSIVE mas_index(_, _, _)
mas_index(Q, j, n) ==
    IF j = 1 THEN <<n>>
    ELSE LET m == IF n = 1 \/ Geq(Q[j - 1][n], Q[j - 1][n - 1]) THEN n ELSE n - 1
         IN  Append(mas_index(Q, j - 1, m), n)

\* the unit of each frame
mas_path(value, t_x, t_y) == mas_index(mas_Q(value, t_x, t_y), t_y, t_x)

\* maximum_path(value, mask): value and mask are [B, T_en, T_de]; the search
\* runs per item on its unpadded lengths, the padded region is left 0
maximum_path(value, mask) ==
    [b \in 1..Len(value) |->
        LET t_x == SeqSum([i \in 1..Len(mask[b]) |-> mask[b][i][1]])
            t_y == SeqSum(mask[b][1])
            unit == IF t_x >= 1 /\ t_y >= 1 THEN mas_path(value[b], t_x, t_y) ELSE <<>>
        IN  [i \in 1..Len(mask[b]) |->
                [t \in 1..Len(mask[b][i]) |->
                    IF t <= Len(unit) /\ unit[t] = i THEN 1 ELSE 0]]]

\* a quotient of two floats that is no whole number: the fraction n / d in
\* lowest terms
RECURSIVE Gcd(_, _)
Gcd(a, b) == IF b = 0 THEN a ELSE Gcd(b, a % b)

Abs(n) == IF n < 0 THEN 0 - n ELSE n

Frac(n, d) ==
    LET g == Gcd(Abs(n), d)
    IN  [num |-> n \div g, den |-> d \div g]

\* average_over_durations(values, durs): for each unit the sum of the
\* frame-level values over the unit's frames divided by their number, 0 for
\* a unit of no frames (spec 4.4).  values is [B, T_de], durs is [B, T_en]
\* whole frames; unit i has the frames [cumsum(durs)[i-1], cumsum(durs)[i]).
average_over_durations(values, durs) ==
    [b \in 1..Len(durs) |->
        [i \in 1..Len(durs[b]) |->
            LET first == cumsum(durs[b], i - 1) + 1
                last == cumsum(durs[b], i)
                total == SeqSum([k \in 1..(last - first + 1) |->
                            IF first + k - 1 <= Len(values[b])
                            THEN values[b][first + k - 1] ELSE 0])
            IN  IF durs[b][i] = 0 THEN Frac(0, 1) ELSE Frac(total, durs[b][i])]]

\* ------------------------------------------------------------ ForwardTTS
\* ForwardTTSArgs.max_duration: int = 75
DefaultMaxDuration == 75

\* a mask of shape [1, T] is broadcast over the batch
bc(mask, b) == mask[IF Len(mask) = 1 THEN 1 ELSE b]

BatchSize(a, b) == IF Len(a) >= Len(b) THEN Len(a) ELSE Len(b)

\* torch.unsqueeze(x_mask, -1) * torch.unsqueeze(y_mask, 2): [B, T_en, T_de]
outer_mask(x_mask, y_mask) ==
    [b \in 1..BatchSize(x_mask, y_mask) |->
        [i \in 1..Len(bc(x_mask, b)) |->
            [t \in 1..Len(bc(y_mask, b)) |-> bc(x_mask, b)[i] * bc(y_mask, b)[t]]]]

\* the frame lengths left as the truncated sums, without the minimum of 1
attn_y_lengths_unclamped(dr) == [b \in 1..Len(dr) |-> SeqSum(dr[b]) \div Den]

\* y_lengths = dr.sum(1).long(); y_lengths[y_lengths < 1] = 1
attn_y_lengths(dr) ==
    [b \in 1..Len(dr) |->
        LET s == SeqSum(dr[b]) \div Den IN IF s < 1 THEN 1 ELSE s]

\* the frame length taken as the longest duration instead of their sum
generate_attn_max_duration(dr, x_mask, y_mask) ==
    LET y_lengths == [b \in 1..Len(dr) |->
                        LET s == SeqMax(dr[b]) \div Den IN IF s < 1 THEN 1 ELSE s]
        ym == IF y_mask = None
              THEN sequence_mask(y_lengths, None)
              ELSE Val(y_mask)
    IN  Result({generate_path(dr, attn_mask) : attn_mask \in One(outer_mask(x_mask, ym))})

\* ForwardTTS.generate_attn(dr, x_mask, y_mask=None)
generate_attn(dr, x_mask, y_mask) ==
    LET ym == IF y_mask = None
              THEN sequence_mask(attn_y_lengths(dr), None)
              ELSE Val(y_mask)
    IN  Result({generate_path(dr, attn_mask) : attn_mask \in One(outer_mask(x_mask, ym))})

\* a log-scale value: Ln(k) is the natural logarithm of k / Den (k >= 1),
\* and torch.exp gives k / Den back
Ln(k) == [ln |-> k]
exp(l) == l.ln

\* torch.round of n / d for n >= 0: to the nearest integer, halves to even
round(n, d) ==
    LET q == n \div d
        r == n % d
    IN  IF 2 * r < d THEN q
        ELSE IF 2 * r > d THEN q + 1
        ELSE IF q % 2 = 0 THEN q ELSE q + 1

\* format_durations with the minimum of 1 applied before the length scale
format_durations_clamp_first(length_scale, o_dr_log, x_mask) ==
    [b \in 1..Len(o_dr_log) |->
        [i \in 1..Len(o_dr_log[b]) |->
            LET e == (exp(o_dr_log[b][i]) - Den) * bc(x_mask, b)[i]
                o_dr == (IF e < Den THEN Den ELSE e) * length_scale
            IN  round(o_dr, Den * Den)]]

\* the durations cut to whole frames instead of rounded
format_durations_truncated(length_scale, o_dr_log, x_mask) ==
    [b \in 1..Len(o_dr_log) |->
        [i \in 1..Len(o_dr_log[b]) |->
            LET o_dr == (exp(o_dr_log[b][i]) - Den) * bc(x_mask, b)[i] * length_scale
                floored == IF o_dr < Den * Den THEN Den * Den ELSE o_dr
            IN  floored \div (Den * Den)]]

\* ForwardTTS.format_durations(o_dr_log, x_mask), with self.length_scale.
\* The product of two fixed-point numbers is in units of 1 / Den^2; the
\* result holds whole numbers of frames.
format_durations(length_scale, o_dr_log, x_mask) ==
    [b \in 1..Len(o_dr_log) |->
        [i \in 1..Len(o_dr_log[b]) |->
            LET o_dr == (exp(o_dr_log[b][i]) - Den) * bc(x_mask, b)[i] * length_scale
                floored == IF o_dr < Den * Den THEN Den * Den ELSE o_dr
            IN  round(floored, Den * Den)]]

\* ForwardTTS.expand_encoder_outputs(en, dr, x_mask, y_mask): the map and the
\* matrix product of its transpose with the encoder outputs (one channel)
expand_encoder_outputs(en, dr, x_mask, y_mask) ==
    Result({[o_en_ex |-> [b \in 1..Len(attn) |->
                            [t \in 1..Len(bc(y_mask, b)) |->
                                SeqSum([i \in 1..Len(attn[b]) |->
                                           attn[b][i][t] * en[b][i]])]],
             attn |-> attn]
            : attn \in One(generate_attn(dr, x_mask, Some(y_mask)))})

\* the hard map taken as the best-scoring unit of each frame on its own
\* (the first such unit), without the search
_forward_aligner_argmax(alignment_soft, x_mask, y_mask) ==
    LET attn_mask == outer_mask(x_mask, y_mask)
        best(s, b, t) == CHOOSE i \in 1..Len(s[b]) :
                        /\ \A k \in 1..Len(s[b]) : s[b][k][t] <= s[b][i][t]
                        /\ \A k \in 1..(i - 1) : s[b][k][t] < s[b][i][t]
        soft == [b \in 1..Len(alignment_soft) |->
                    transpose(alignment_soft[b], Len(bc(x_mask, b)))]
    IN  Result({[o_alignment_dur |-> [b \in 1..Len(alignment_mas) |->
                                        [i \in 1..Len(alignment_mas[b]) |->
                                            RowSum(alignment_mas[b], i)]],
                 alignment_soft |-> soft,
                 alignment_mas |-> alignment_mas]
                : alignment_mas \in One(
                    [b \in 1..Len(soft) |->
                        [i \in 1..Len(soft[b]) |->
                            [t \in 1..Len(soft[b][i]) |->
                                IF best(soft, b, t) = i THEN attn_mask[b][i][t] ELSE 0]]])})

\* the search run on the text mask alone: every frame of the padded width
\* counts as a frame of the item
_forward_aligner_no_frame_mask(alignment_soft, x_mask, y_mask) ==
    LET attn_mask == outer_mask(x_mask, [b \in 1..Len(y_mask) |-> Ones(Len(y_mask[b]))])
        soft == [b \in 1..Len(alignment_soft) |->
                    transpose(alignment_soft[b], Len(bc(x_mask, b)))]
    IN  Result({[o_alignment_dur |-> [b \in 1..Len(alignment_mas) |->
                                        [i \in 1..Len(alignment_mas[b]) |->
                                            RowSum(alignment_mas[b], i)]],
                 alignment_soft |-> soft,
                 alignment_mas |-> alignment_mas]
                : alignment_mas \in One(
                    maximum_path(soft, attn_mask))})

\* the search run on the scores of the untransposed text axis read backwards
\* (unit i scored as unit T_en + 1 - i)
_forward_aligner_flipped(alignment_soft, x_mask, y_mask) ==
    LET attn_mask == outer_mask(x_mask, y_mask)
        soft == [b \in 1..Len(alignment_soft) |->
                    transpose(alignment_soft[b], Len(bc(x_mask, b)))]
    IN  Result({[o_alignment_dur |-> [b \in 1..Len(alignment_mas) |->
                                        [i \in 1..Len(alignment_mas[b]) |->
                                            RowSum(alignment_mas[b], i)]],
                 alignment_soft |-> soft,
                 alignment_mas |-> alignment_mas]
                : alignment_mas \in One(
                    maximum_path([b \in 1..Len(soft) |->
                                     [i \in 1..Len(soft[b]) |->
                                         soft[b][Len(soft[b]) + 1 - i]]],
                                 attn_mask))})

\* ForwardTTS._forward_aligner(x, y, x_mask, y_mask).  alignment_soft is what
\* self.aligner returned for (y, x), squeezed: [B, T_de, T_en]; the log
\* probabilities it returns with it are passed through untouched and left out.
_forward_aligner(alignment_soft, x_mask, y_mask) ==
    LET attn_mask == outer_mask(x_mask, y_mask)
        soft == [b \in 1..Len(alignment_soft) |->
                    transpose(alignment_soft[b], Len(bc(x_mask, b)))]
    IN  Result({[o_alignment_dur |-> [b \in 1..Len(alignment_mas) |->
                                        [i \in 1..Len(alignment_mas[b]) |->
                                            RowSum(alignment_mas[b], i)]],
                 alignment_soft |-> soft,
                 alignment_mas |-> alignment_mas]
                : alignment_mas \in One(
                    maximum_path(soft, attn_mask))})

\* self.pitch_emb / self.energy_emb: the learned projection of a per-unit
\* value into the hidden representation, kept as the value it embeds
pitch_emb(v) == [emb |-> "pitch", of |-> v]
energy_emb(v) == [emb |-> "energy", of |-> v]

\* avg * control, the control a scalar
ScaleAvg(avg, control) ==
    [b \in 1..Len(avg) |->
        [i \in 1..Len(avg[b]) |-> Frac(avg[b][i].num * control, avg[b][i].den)]]

\* o + control, the control a scalar
AddControl(o, control) ==
    [b \in 1..Len(o) |-> [i \in 1..Len(o[b]) |-> o[b][i] + control]]

\* the control added after the replacement instead of before it
_forward_pitch_predictor_control_last(o_pitch_hat, pitch, dr, pitch_control, pitch_replace) ==
    IF pitch # None
    THEN LET avg == average_over_durations(Val(pitch), Val(dr))
             avg_pitch == IF pitch_control # None
                          THEN ScaleAvg(avg, Val(pitch_control)) ELSE avg
         IN  <<pitch_emb(avg_pitch), o_pitch_hat, avg_pitch>>
    ELSE LET replaced == IF pitch_replace # None THEN Val(pitch_replace) ELSE o_pitch_hat
             o_pitch == IF pitch_control # None
                        THEN AddControl(replaced, Val(pitch_control)) ELSE replaced
         IN  <<pitch_emb(o_pitch), o_pitch>>

\* the predictor embedding its own output also when it is given a
\* ground-truth contour
_forward_pitch_predictor_embeds_prediction(o_pitch_hat, pitch, dr, pitch_control, pitch_replace) ==
    IF pitch # None
    THEN LET avg == average_over_durations(Val(pitch), Val(dr))
             avg_pitch == IF pitch_control # None
                          THEN ScaleAvg(avg, Val(pitch_control)) ELSE avg
             predicted == [b \in 1..Len(o_pitch_hat) |->
                             [i \in 1..Len(o_pitch_hat[b]) |-> Frac(o_pitch_hat[b][i], 1)]]
         IN  <<pitch_emb(predicted), o_pitch_hat, avg_pitch>>
    ELSE LET controlled == IF pitch_control # None
                           THEN AddControl(o_pitch_hat, Val(pitch_control)) ELSE o_pitch_hat
             o_pitch == IF pitch_replace # None THEN Val(pitch_replace) ELSE controlled
         IN  <<pitch_emb(o_pitch), o_pitch>>

\* the predictor returning what self.pitch_predictor gave, whatever was
\* embedded
_forward_pitch_predictor_returns_raw(o_pitch_hat, pitch, dr, pitch_control, pitch_replace) ==
    IF pitch # None
    THEN LET avg == average_over_durations(Val(pitch), Val(dr))
             avg_pitch == IF pitch_control # None
                          THEN ScaleAvg(avg, Val(pitch_control)) ELSE avg
         IN  <<pitch_emb(avg_pitch), o_pitch_hat, avg_pitch>>
    ELSE LET controlled == IF pitch_control # None
                           THEN AddControl(o_pitch_hat, Val(pitch_control)) ELSE o_pitch_hat
             o_pitch == IF pitch_replace # None THEN Val(pitch_replace) ELSE controlled
         IN  <<pitch_emb(o_pitch), o_pitch_hat>>

\* ForwardTTS._forward_pitch_predictor(o_en, x_mask, pitch, dr, pitch_control,
\* pitch_replace).  o_pitch_hat is what self.pitch_predictor(o_en, x_mask)
\* returned.  The result is the tuple the code returns: three values with a
\* ground-truth contour, two without.
_forward_pitch_predictor(o_pitch_hat, pitch, dr, pitch_control, pitch_replace) ==
    IF pitch # None
    THEN LET avg == average_over_durations(Val(pitch), Val(dr))
             avg_pitch == IF pitch_control # None
                          THEN ScaleAvg(avg, Val(pitch_control)) ELSE avg
         IN  <<pitch_emb(avg_pitch), o_pitch_hat, avg_pitch>>
    ELSE LET controlled == IF pitch_control # None
                           THEN AddControl(o_pitch_hat, Val(pitch_control)) ELSE o_pitch_hat
             o_pitch == IF pitch_replace # None THEN Val(pitch_replace) ELSE controlled
         IN  <<pitch_emb(o_pitch), o_pitch>>

\* the energy predictor handing out its prediction as the target
_forward_energy_predictor_target_predicted(o_energy_hat, energy, dr, energy_control, energy_replace) ==
    IF energy # None
    THEN LET predicted == [b \in 1..Len(o_energy_hat) |->
                             [i \in 1..Len(o_energy_hat[b]) |-> Frac(o_energy_hat[b][i], 1)]]
         IN  <<energy_emb(predicted), o_energy_hat, predicted>>
    ELSE LET controlled == IF energy_control # None
                           THEN AddControl(o_energy_hat, Val(energy_control)) ELSE o_energy_hat
             o_energy == IF energy_replace # None THEN Val(energy_replace) ELSE controlled
         IN  <<energy_emb(o_energy), o_energy>>

\* ForwardTTS._forward_energy_predictor(o_en, x_mask, energy, dr,
\* energy_control, energy_replace), o_energy_hat what self.energy_predictor
\* returned
_forward_energy_predictor(o_energy_hat, energy, dr, energy_control, energy_replace) ==
    IF energy # None
    THEN LET avg == average_over_durations(Val(energy), Val(dr))
             avg_energy == IF energy_control # None
                           THEN ScaleAvg(avg, Val(energy_control)) ELSE avg
         IN  <<energy_emb(avg_energy), o_energy_hat, avg_energy>>
    ELSE LET controlled == IF energy_control # None
                           THEN AddControl(o_energy_hat, Val(energy_control)) ELSE o_energy_hat
             o_energy == IF energy_replace # None THEN Val(energy_replace) ELSE controlled
         IN  <<energy_emb(o_energy), o_energy>>

\* torch.clamp(v, lo, hi)
clamp(v, lo, hi) == IF v < lo THEN lo ELSE IF v > hi THEN hi ELSE v

\* whole durations (an int tensor, rounded floats) read as floats
ToFloat(dr) == [b \in 1..Len(dr) |-> [i \in 1..Len(dr[b]) |-> Fx(dr[b][i])]]

\* self.encoder on the embedded text: the encoder features, kept as the
\* first term of the sum the passes build on it (o_en = o_en + embedding)
encoder_out == [emb |-> "encoder", of |-> <<>>]

\* a call that raises: it returns nothing
Raise(e) == [raised |-> Some(e), outputs |-> None, calls |-> <<>>]

\* dict.get(key, None)
Get(aux_input, key) == IF key \in DOMAIN aux_input THEN aux_input[key] ELSE None

\* the speaker check without its two tests: speaker ids win when both are
\* given, and are taken whether or not the model can embed them
_set_speaker_input_unchecked(slf, aux_input) ==
    LET d_vectors == Get(aux_input, "d_vectors")
        speaker_ids == Get(aux_input, "speaker_ids")
    IN  [raised |-> None, g |-> IF speaker_ids # None THEN speaker_ids ELSE d_vectors]

\* ForwardTTS._set_speaker_input(aux_input): raises ValueError or returns g
_set_speaker_input(slf, aux_input) ==
    LET d_vectors == Get(aux_input, "d_vectors")
        speaker_ids == Get(aux_input, "speaker_ids")
    IN  IF d_vectors # None /\ speaker_ids # None
        THEN [raised |-> Some("ValueError"), g |-> None]
        ELSE IF speaker_ids # None /\ ~slf.emb_g
        THEN [raised |-> Some("ValueError"), g |-> None]
        ELSE [raised |-> None, g |-> IF speaker_ids # None THEN speaker_ids ELSE d_vectors]

\* the speaker inputs of a call: a tensor of speaker ids, a tensor of
\* d-vectors
SpeakerIds == [speaker |-> "ids"]
DVectors == [speaker |-> "d_vectors"]

\* the speaker conditioning added to the encoder features (o_en = o_en + g)
speaker_emb(g) == [emb |-> "speaker", of |-> g]

\* ForwardTTS._forward_encoder(x, x_mask, g): the encoder features with the
\* speaker conditioning.  self.emb_g, where the model has it, is an embedding
\* table applied to g whatever g is: it raises on None (TypeError) and on
\* float d-vectors (RuntimeError), which are no indices.
_forward_encoder(slf, g) ==
    IF slf.emb_g /\ g = None THEN [raised |-> Some("TypeError"), o_en |-> <<>>]
    ELSE IF slf.emb_g /\ g # Some(SpeakerIds)
    THEN [raised |-> Some("RuntimeError"), o_en |-> <<>>]
    ELSE [raised |-> None,
          o_en |-> IF g = None THEN <<encoder_out>>
                   ELSE <<encoder_out, speaker_emb(Val(g))>>]

\* embedding.repeat(1, 1, len(word)) of every token of a sentence,
\* concatenated: position by position the tag whose row of self.pos_embs is
\* there.  A token is [entity |-> tag, len |-> len(word)].
RECURSIVE embedding_fine(_)
embedding_fine(tokens) ==
    IF tokens = <<>> THEN <<>>
    ELSE [k \in 1..tokens[1].len |-> tokens[1].entity] \o embedding_fine(Tail(tokens))

\* the zero vector F.pad fills with
ZeroEmbedding == 0

\* p_embedding of one sentence: the concatenation without its first
\* position, padded with zeros up to the input width T when shorter
p_embedding(tokens, T) ==
    LET cat == Tail(embedding_fine(tokens))
    IN  IF Len(cat) < T
        THEN cat \o [k \in 1..(T - Len(cat)) |-> ZeroEmbedding]
        ELSE cat

\* the tagger pass of forward and of inference on what self.pos returned,
\* predictions[s] the tokens of sentence s.  torch.cat raises on a sentence
\* without tokens (an empty list) and on sentences of different widths;
\* o_en + batch_pos_embs raises when the widths differ and none is 1.
pos_tagger_pass(predictions, T) ==
    IF \E s \in 1..Len(predictions) : predictions[s] = <<>>
    THEN [raised |-> Some("RuntimeError"), batch_pos_embs |-> <<>>]
    ELSE LET batch_pos_embs == [s \in 1..Len(predictions) |-> p_embedding(predictions[s], T)]
         IN  IF \E s \in 1..Len(predictions) : Len(batch_pos_embs[s]) # Len(batch_pos_embs[1])
             THEN [raised |-> Some("RuntimeError"), batch_pos_embs |-> <<>>]
             ELSE IF Len(batch_pos_embs[1]) # T /\ T # 1
             THEN [raised |-> Some("RuntimeError"), batch_pos_embs |-> <<>>]
             ELSE [raised |-> None, batch_pos_embs |-> batch_pos_embs]

\* the tagging embedding added to the encoder features
pos_embs(batch_pos_embs) == [emb |-> "pos", of |-> batch_pos_embs]

\* the energy predictor given the features the pitch predictor was given
prosody_features_energy_first(slf, o_en, o_pitch_emb, o_energy_emb) ==
    LET o_en_p == IF slf.use_pitch THEN Append(o_en, o_pitch_emb) ELSE o_en
        o_en_e == IF slf.use_energy THEN Append(o_en_p, o_energy_emb) ELSE o_en_p
    IN  [pitch_predictor |-> o_en, energy_predictor |-> o_en, decoder |-> o_en_e]

\* the features each network of the prosody passes is given, forward lines
\* 729-741 and inference lines 856-867: o_en as the duration predictor read
\* it for the pitch predictor, o_en + o_pitch_emb for the energy predictor,
\* o_en + o_pitch_emb + o_energy_emb for the decoder pass
prosody_features(slf, o_en, o_pitch_emb, o_energy_emb) ==
    LET o_en_p == IF slf.use_pitch THEN Append(o_en, o_pitch_emb) ELSE o_en
        o_en_e == IF slf.use_energy THEN Append(o_en_p, o_energy_emb) ELSE o_en_p
    IN  [pitch_predictor |-> o_en, energy_predictor |-> o_en_p, decoder |-> o_en_e]

\* a network invoked in a call, with the features it was given
Invoked(network, o_en) == [net |-> network, o_en |-> o_en]

\* self.emb on the text, what the aligner reads
x_emb == [emb |-> "emb", of |-> <<>>]

\* self.decoder (after self.pos_encoder): kept as what it was given
decoder(o_en_ex, y_mask) == [net |-> "decoder", o_en_ex |-> o_en_ex, y_mask |-> y_mask]

\* ForwardTTS._forward_decoder(o_en, dr, x_mask, y_lengths, g=None).  The
\* expanded features are kept as the terms of o_en with, for every frame,
\* the text unit the map reads them at (the map applied to the unit indices).
_forward_decoder(o_en, dr, x_mask, y_lengths) ==
    LET y_mask == sequence_mask(y_lengths, None)
        units == [b \in 1..Len(dr) |-> [i \in 1..Len(dr[b]) |-> i]]
    IN  Result({<<decoder([terms |-> o_en, unit |-> r.o_en_ex], y_mask),
                  [b \in 1..Len(r.attn) |-> transpose(r.attn[b], Len(y_mask[b]))]>>
                : r \in One(expand_encoder_outputs(units, ToFloat(dr), x_mask, y_mask))})

\* the aligner step of forward with the caller's dr kept when one is given
forward_aligner_keeps_dr(use_aligner, alignment_soft, x_mask, y_mask, dr) ==
    IF use_aligner
    THEN Result({[o_alignment_dur |-> Some(r.o_alignment_dur),
                  alignment_soft |-> Some([b \in 1..Len(r.alignment_soft) |->
                                      transpose(r.alignment_soft[b], Len(y_mask[b]))]),
                  alignment_logprob |-> Some("alignment_logprob"),
                  alignment_mas |-> Some([b \in 1..Len(r.alignment_mas) |->
                                      transpose(r.alignment_mas[b], Len(y_mask[b]))]),
                  dr |-> IF dr # None THEN dr ELSE Some(r.o_alignment_dur)]
                 : r \in One(_forward_aligner(alignment_soft, x_mask, y_mask))})
    ELSE [o_alignment_dur |-> None, alignment_soft |-> None,
          alignment_logprob |-> None, alignment_mas |-> None, dr |-> dr]

\* the aligner step of ForwardTTS.forward: with use_aligner the search runs,
\* its maps are transposed to [B, T_de, T_en] and dr becomes o_alignment_dur
forward_aligner(use_aligner, alignment_soft, x_mask, y_mask, dr) ==
    IF use_aligner
    THEN Result({[o_alignment_dur |-> Some(r.o_alignment_dur),
                  alignment_soft |-> Some([b \in 1..Len(r.alignment_soft) |->
                                      transpose(r.alignment_soft[b], Len(y_mask[b]))]),
                  alignment_logprob |-> Some("alignment_logprob"),
                  alignment_mas |-> Some([b \in 1..Len(r.alignment_mas) |->
                                      transpose(r.alignment_mas[b], Len(y_mask[b]))]),
                  dr |-> Some(r.o_alignment_dur)]
                 : r \in One(_forward_aligner(alignment_soft, x_mask, y_mask))})
    ELSE [o_alignment_dur |-> None, alignment_soft |-> None,
          alignment_logprob |-> None, alignment_mas |-> None, dr |-> dr]

\* ForwardTTS.forward(x, x_lengths, y_lengths, y, dr, pitch, energy,
\* aux_input) on a model slf.  net holds what the collaborators returned in
\* this call: o_dr_log (duration predictor), alignment_soft (aligner, from
\* y), o_pitch_hat, o_energy_hat, predictions (tagger).  The call raises or
\* returns its output dictionary; calls lists the networks it invoked, in
\* the order of the code, each with the features it was given.
forward(slf, x, x_lengths, y_lengths, dr, pitch, energy, aux_input, net) ==
    LET sp == _set_speaker_input(slf, aux_input)
        en == _forward_encoder(slf, sp.g)
        pos == IF slf.use_pos_tagger
               THEN pos_tagger_pass(net.predictions, Len(x[1]))
               ELSE [raised |-> None, batch_pos_embs |-> <<>>]
        o_en == IF slf.use_pos_tagger
                THEN Append(en.o_en, pos_embs(pos.batch_pos_embs)) ELSE en.o_en
        o_dr_log == net.o_dr_log
    IN  IF sp.raised # None THEN Raise(Val(sp.raised))
        ELSE IF en.raised # None THEN Raise(Val(en.raised))
        ELSE IF pos.raised # None THEN Raise(Val(pos.raised))
        ELSE Result({Result({Result({
            \* three names unpacked from the two values a predictor returns
            \* without a ground-truth contour
            IF \/ slf.use_pitch /\ Len(p) # 3
               \/ slf.use_energy /\ Len(e) # 3
            THEN Raise("ValueError")
            ELSE Result({Result({
            [raised |-> None,
             outputs |-> Some(
                [model_outputs |-> de[1],
                 durations_log |-> o_dr_log,
                 durations |-> o_dr,
                 attn_durations |-> o_attn,
                 pitch_avg |-> IF slf.use_pitch THEN Some(p[2]) ELSE None,
                 pitch_avg_gt |-> IF slf.use_pitch THEN Some(p[3]) ELSE None,
                 energy_avg |-> IF slf.use_energy THEN Some(e[2]) ELSE None,
                 energy_avg_gt |-> IF slf.use_energy THEN Some(e[3]) ELSE None,
                 alignments |-> de[2],
                 alignment_soft |-> al.alignment_soft,
                 alignment_mas |-> al.alignment_mas,
                 o_alignment_dur |-> al.o_alignment_dur,
                 alignment_logprob |-> al.alignment_logprob,
                 x_mask |-> x_mask,
                 y_mask |-> y_mask]),
             calls |->
                <<Invoked("duration_predictor", o_en)>>
                \o (IF slf.use_aligner THEN <<Invoked("aligner", <<x_emb>>)>> ELSE <<>>)
                \o (IF slf.use_pitch
                    THEN <<Invoked("pitch_predictor", feats.pitch_predictor)>> ELSE <<>>)
                \o (IF slf.use_energy
                    THEN <<Invoked("energy_predictor", feats.energy_predictor)>> ELSE <<>>)
                \o <<Invoked("decoder", feats.decoder)>>]
            : de \in One(_forward_decoder(feats.decoder, Val(al.dr), x_mask, y_lengths))})
            : feats \in One(prosody_features(slf, o_en,
                               IF slf.use_pitch THEN p[1] ELSE <<>>,
                               IF slf.use_energy THEN e[1] ELSE <<>>))})
            : p \in One(IF slf.use_pitch
                        THEN _forward_pitch_predictor(net.o_pitch_hat, pitch, al.dr,
                                                      None, None)
                        ELSE <<>>),
              e \in One(IF slf.use_energy
                        THEN _forward_energy_predictor(net.o_energy_hat, energy, al.dr,
                                                       None, None)
                        ELSE <<>>)})
            : o_attn \in One(generate_attn(o_dr, x_mask, None)),
              al \in One(forward_aligner(slf.use_aligner, net.alignment_soft,
                                         x_mask, y_mask, dr))})
            : y_mask \in One(sequence_mask(y_lengths, None)),
              x_mask \in One(sequence_mask(x_lengths, Some(Len(x[1])))),
              o_dr \in One([b \in 1..Len(o_dr_log) |->
                              [i \in 1..Len(o_dr_log[b]) |->
                                  clamp(exp(o_dr_log[b][i]) - Den, 0,
                                        Fx(slf.max_duration))]])})

\* torch.abs(durations - durations_pred).sum() / text_lengths.sum()
duration_error(durations, durations_pred, text_lengths) ==
    Frac(SeqSum([b \in 1..Len(durations) |->
            SeqSum([i \in 1..Len(durations[b]) |->
                Abs(Fx(durations[b][i]) - durations_pred[b][i])])]),
         Den * SeqSum(text_lengths))

\* ForwardTTS.train_step(batch, criterion, step): the forward pass, the
\* arguments the criterion is called with and the duration error
train_step(slf, batch, net) ==
    LET pitch == IF slf.use_pitch THEN batch.pitch ELSE None
        energy == IF slf.use_energy THEN batch.energy ELSE None
        aux_input == [k \in {"d_vectors", "speaker_ids"} |->
                         IF k = "d_vectors" THEN batch.d_vectors ELSE batch.speaker_ids]
        durations(outputs) == IF slf.use_aligner THEN outputs.o_alignment_dur
                              ELSE batch.durations
    IN  Result({
            IF returned.raised # None
            THEN [raised |-> returned.raised, outputs |-> None, criterion |-> None,
                  duration_error |-> None, calls |-> <<>>]
            ELSE Result({
            [raised |-> None,
             outputs |-> outputs,
             criterion |->
                [decoder_output |-> outputs.model_outputs,
                 decoder_output_lens |-> batch.mel_lengths,
                 dur_output |-> outputs.durations_log,
                 dur_target |-> Val(durations(outputs)),
                 pitch_output |-> IF slf.use_pitch THEN outputs.pitch_avg ELSE None,
                 pitch_target |-> IF slf.use_pitch THEN outputs.pitch_avg_gt ELSE None,
                 energy_output |-> IF slf.use_energy THEN outputs.energy_avg ELSE None,
                 energy_target |-> IF slf.use_energy THEN outputs.energy_avg_gt ELSE None,
                 input_lens |-> batch.text_lengths,
                 alignment_logprob |-> IF slf.use_aligner
                                       THEN outputs.alignment_logprob ELSE None,
                 alignment_soft |-> IF slf.use_binary_alignment_loss
                                    THEN outputs.alignment_soft ELSE None,
                 alignment_hard |-> IF slf.use_binary_alignment_loss
                                    THEN outputs.alignment_mas ELSE None],
             duration_error |->
                duration_error(Val(durations(outputs)), outputs.durations,
                               batch.text_lengths),
             calls |-> returned.calls]
            : outputs \in returned.outputs})
            : returned \in One(forward(slf, batch.text_input, batch.text_lengths,
                                       batch.mel_lengths, batch.durations,
                                       pitch, energy, aux_input, net))})

\* aux_input[key] of inference: a missing key raises KeyError
HasKeys(aux_input, keys) == keys \subseteq DOMAIN aux_input

\* the lengths of inference taken from the items: their tokens before the
\* padding
inference_x_lengths_of_items(x) ==
    [b \in 1..Len(x) |-> Cardinality({i \in 1..Len(x[b]) : x[b][i] # 0})]

\* x_lengths = torch.tensor(x.shape[1:2]) of inference: one length, the
\* padded width of the input
inference_x_lengths(x) == <<Len(x[1])>>

\* ForwardTTS.inference(x, aux_input) on a model slf.  net holds what the
\* collaborators returned in this call: o_dr_log, o_pitch_hat, o_energy_hat,
\* predictions (tagger).  The call raises (no output) or returns its output
\* dictionary; calls lists the networks it invoked, in the order of the
\* code, each with the features it was given.
inference(slf, x, aux_input, net) ==
    LET sp == _set_speaker_input(slf, aux_input)
        x_lengths == inference_x_lengths(x)
        x_mask == sequence_mask(x_lengths, Some(Len(x[1])))
        en == _forward_encoder(slf, sp.g)
        pos == IF slf.use_pos_tagger
               THEN pos_tagger_pass(net.predictions, Len(x[1]))
               ELSE [raised |-> None, batch_pos_embs |-> <<>>]
        o_en == IF slf.use_pos_tagger
                THEN Append(en.o_en, pos_embs(pos.batch_pos_embs)) ELSE en.o_en
        o_dr_log == net.o_dr_log
    IN  IF sp.raised # None THEN Raise(Val(sp.raised))
        ELSE IF en.raised # None THEN Raise(Val(en.raised))
        ELSE IF pos.raised # None THEN Raise(Val(pos.raised))
        ELSE IF \/ slf.use_pitch /\ ~HasKeys(aux_input, {"pitch_control", "pitch_replace"})
                \/ slf.use_energy /\ ~HasKeys(aux_input, {"energy_control", "energy_replace"})
        THEN Raise("KeyError")
        ELSE Result({Result({Result({
            [raised |-> None,
             outputs |-> Some([model_outputs |-> de[1],
                               alignments |-> de[2],
                               pitch |-> IF slf.use_pitch THEN Some(p[2]) ELSE None,
                               energy |-> IF slf.use_energy THEN Some(e[2]) ELSE None,
                               durations_log |-> o_dr_log]),
             calls |->
                <<Invoked("duration_predictor", o_en)>>
                \o (IF slf.use_pitch
                    THEN <<Invoked("pitch_predictor", feats.pitch_predictor)>> ELSE <<>>)
                \o (IF slf.use_energy
                    THEN <<Invoked("energy_predictor", feats.energy_predictor)>> ELSE <<>>)
                \o <<Invoked("decoder", feats.decoder)>>]
            : de \in One(_forward_decoder(feats.decoder, o_dr, x_mask,
                                          [b \in 1..Len(o_dr) |-> SeqSum(o_dr[b])]))})
            : feats \in One(prosody_features(slf, o_en,
                               IF slf.use_pitch THEN p[1] ELSE <<>>,
                               IF slf.use_energy THEN e[1] ELSE <<>>))})
            : o_dr \in One(format_durations(slf.length_scale, o_dr_log, x_mask)),
              p \in One(IF slf.use_pitch
                        THEN _forward_pitch_predictor(net.o_pitch_hat, None, None,
                                 aux_input["pitch_control"], aux_input["pitch_replace"])
                        ELSE <<>>),
              e \in One(IF slf.use_energy
                        THEN _forward_energy_predictor(net.o_energy_hat, None, None,
                                 aux_input["energy_control"], aux_input["energy_replace"])
                        ELSE <<>>)})

\* config.d_vector_dim of a configuration that uses d-vectors
DVectorDim == 256

\* init_multispeaker without its test of the speaker manager
init_multispeaker_unchecked(config, speaker_manager) ==
    [raised |-> None,
     embedded_speaker_dim |-> IF config.use_d_vector_file THEN config.d_vector_dim ELSE 0,
     emb_g |-> config.use_speaker_embedding /\ ~config.use_d_vector_file]

\* ForwardTTS.init_multispeaker(config) with self.speaker_manager set:
\* raises ValueError or sets embedded_speaker_dim and, for speaker ids
\* without d-vectors, the embedding table emb_g
init_multispeaker(config, speaker_manager) ==
    IF speaker_manager = None /\ (config.use_d_vector_file \/ config.use_speaker_embedding)
    THEN [raised |-> Some("ValueError"), embedded_speaker_dim |-> 0, emb_g |-> FALSE]
    ELSE [raised |-> None,
          embedded_speaker_dim |-> IF config.use_d_vector_file THEN config.d_vector_dim ELSE 0,
          emb_g |-> config.use_speaker_embedding /\ ~config.use_d_vector_file]

\* ForwardTTS.__init__(config, speaker_manager): raises or builds the model
\* object.  With the tagger the constructor freezes self.aligner, an
\* attribute a model without aligner does not have (AttributeError).
__init__(config, speaker_manager) ==
    LET ms == init_multispeaker(config, speaker_manager)
    IN  IF ms.raised # None THEN [raised |-> ms.raised, self |-> None]
        ELSE IF config.use_pos_tagger /\ ~config.use_aligner
        THEN [raised |-> Some("AttributeError"), self |-> None]
        ELSE [raised |-> None,
              self |-> Some([max_duration |-> config.max_duration,
                             length_scale |-> config.length_scale,
                             use_aligner |-> config.use_aligner,
                             use_pitch |-> config.use_pitch,
                             use_energy |-> config.use_energy,
                             use_binary_alignment_loss |-> FALSE,
                             speaker_manager |-> speaker_manager,
                             embedded_speaker_dim |-> ms.embedded_speaker_dim,
                             emb_g |-> ms.emb_g,
                             use_pos_tagger |-> config.use_pos_tagger,
                             binary_align_loss_start_step |->
                                 config.binary_align_loss_start_step])]

\* on_train_step_start with no test of the step
on_train_step_start_always(slf, total_steps_done) ==
    [slf EXCEPT !.use_binary_alignment_loss = TRUE]

\* ForwardTTS.on_train_step_start(trainer), total_steps_done the trainer's
on_train_step_start(slf, total_steps_done) ==
    IF total_steps_done > slf.binary_align_loss_start_step
    THEN [slf EXCEPT !.use_binary_alignment_loss = TRUE]
    ELSE slf

\* ----------------------------------------------------------------- state
\* self: the fields of the model object; call: the last call made on it,
\* with its inputs and what it returned.
VARIABLES self, call

vars == <<self, call>>

\* the padded batches drawn as inputs: one free item, alone or followed by
\* a filler item whose text fills the padded width
TextLens(T_en) == 1..T_en

\* fixed-point durations drawn for generate_attn: the integers 0..MaxDur and
\* the values one step of 1/Den above them
DurValues == {Fx(d) : d \in 0..MaxDur} \cup {Fx(d) + 1 : d \in 0..(MaxDur - 1)}

Rows(T, values) == [1..T -> values]

\* no call is in progress: the tensors of the last call are discarded
Idle == [op |-> "idle"]

\* config.binary_align_loss_start_step of the configurations drawn
StartStep == 1

\* the model objects __init__ builds without speaker manager and without
\* tagger: the fields set from the configuration and
\* use_binary_alignment_loss = False
Models ==
    [max_duration : {MaxDur, DefaultMaxDuration},
     length_scale : 1..MaxLengthScale,
     use_aligner : BOOLEAN,
     use_pitch : BOOLEAN,
     use_energy : BOOLEAN,
     use_binary_alignment_loss : {FALSE},
     speaker_manager : {None},
     embedded_speaker_dim : {0},
     emb_g : {FALSE},
     use_pos_tagger : {FALSE},
     binary_align_loss_start_step : {StartStep}]

\* the model built from a configuration that sets nothing: ForwardTTSArgs'
\* defaults
DefaultModel ==
    [max_duration |-> DefaultMaxDuration,
     length_scale |-> Fx(1),
     use_aligner |-> TRUE,
     use_pitch |-> TRUE,
     use_energy |-> TRUE,
     use_binary_alignment_loss |-> FALSE,
     speaker_manager |-> None,
     embedded_speaker_dim |-> 0,
     emb_g |-> FALSE,
     use_pos_tagger |-> FALSE,
     binary_align_loss_start_step |-> StartStep]

Init ==
    /\ self \in Models
    /\ call = Idle

\* the log-scale outputs of the duration predictor drawn as inputs
LogValues == {Ln(k) : k \in 1..MaxExp}

\* format_durations on one item: every predictor output, every text mask
FormatDurations ==
    /\ call = Idle
    /\ \E T_en \in 1..MaxFmtLen :
       \E x_len \in 0..T_en, row \in Rows(T_en, LogValues) :
           /\ call' =
                 LET x_mask == sequence_mask(<<x_len>>, Some(T_en))
                 IN  [op |-> "format_durations", o_dr_log |-> <<row>>, x_mask |-> x_mask,
                      o_dr |-> format_durations(self.length_scale, <<row>>, x_mask)]
           /\ UNCHANGED self

\* generate_attn as forward calls it: no frame mask, durations from the
\* duration predictor (floats)
GenerateAttn ==
    /\ call = Idle
    /\ \E T_en \in 1..MaxTen :
       \E x_len \in TextLens(T_en), row \in Rows(T_en, DurValues), batched \in BOOLEAN :
           /\ call' =
                 LET dr == IF batched THEN <<row, [i \in 1..T_en |-> Fx(1)]>> ELSE <<row>>
                     x_mask == sequence_mask(IF batched THEN <<x_len, T_en>> ELSE <<x_len>>, Some(T_en))
                 IN  [op |-> "generate_attn", dr |-> dr, x_mask |-> x_mask,
                      y_mask |-> None, attn |-> generate_attn(dr, x_mask, None)]
           /\ UNCHANGED self

\* integer durations (ground truth, aligner or rounded durations)
IntDurValues == {Fx(d) : d \in 0..MaxDur}

\* encoder outputs with one channel: unit i carries the value i
UnitTags(T_en) == [i \in 1..T_en |-> i]

\* expand_encoder_outputs as _forward_decoder calls it: the frame mask is
\* built from the frame lengths of the batch
ExpandEncoderOutputs ==
    /\ call = Idle
    /\ \E T_en \in 1..MaxTen :
       \E x_len \in TextLens(T_en), row \in Rows(T_en, IntDurValues),
          y_len \in 1..MaxTde, batched \in BOOLEAN :
           /\ call' =
                 LET dr == IF batched THEN <<row, [i \in 1..T_en |-> Fx(1)]>> ELSE <<row>>
                     en == IF batched THEN <<UnitTags(T_en), UnitTags(T_en)>> ELSE <<UnitTags(T_en)>>
                     x_mask == sequence_mask(IF batched THEN <<x_len, T_en>> ELSE <<x_len>>, Some(T_en))
                     y_mask == sequence_mask(IF batched THEN <<y_len, T_en>> ELSE <<y_len>>, None)
                     r == expand_encoder_outputs(en, dr, x_mask, y_mask)
                 IN  [op |-> "expand_encoder_outputs", en |-> en, dr |-> dr,
                      x_mask |-> x_mask, y_mask |-> Some(y_mask),
                      o_en_ex |-> r.o_en_ex, attn |-> r.attn]
           /\ UNCHANGED self

\* the scores self.aligner gives a (text unit, frame) pair
ScoreValues == {0, 1}

\* the score matrices [T_en, T_de] of one item of x_len units and y_len
\* frames, padded to T_en x T_de with the score pad
Scores(x_len, y_len, T_en, T_de, pad) ==
    {[i \in 1..T_en |-> [t \in 1..T_de |->
        IF i <= x_len /\ t <= y_len THEN m[i][t] ELSE pad]] :
     m \in [1..x_len -> [1..y_len -> ScoreValues]]}

\* _forward_aligner on one item, alone or padded beside a filler item of
\* the widest text and the longest frame length
ForwardAligner ==
    /\ call = Idle
    /\ \E x_len \in 1..MaxMasText, y_len \in 1..MaxMasFrames, batched \in BOOLEAN :
       \E pad \in IF batched THEN ScoreValues ELSE {0} :
           LET T_en == IF batched THEN MaxMasText ELSE x_len
               T_de == IF batched THEN MaxMasFrames ELSE y_len
           IN  \E value \in Scores(x_len, y_len, T_en, T_de, pad) :
               /\ call' =
                     LET zero == [i \in 1..T_en |-> [t \in 1..T_de |-> 0]]
                         soft == IF batched THEN <<value, zero>> ELSE <<value>>
                         aligner_out == [b \in 1..Len(soft) |-> transpose(soft[b], T_de)]
                         x_mask == sequence_mask(IF batched THEN <<x_len, T_en>> ELSE <<x_len>>, Some(T_en))
                         y_mask == sequence_mask(IF batched THEN <<y_len, T_de>> ELSE <<y_len>>, None)
                         r == _forward_aligner(aligner_out, x_mask, y_mask)
                     IN  [op |-> "_forward_aligner", x_mask |-> x_mask, y_mask |-> y_mask,
                          x_lengths |-> IF batched THEN <<x_len, T_en>> ELSE <<x_len>>,
                          y_lengths |-> IF batched THEN <<y_len, T_de>> ELSE <<y_len>>,
                          o_alignment_dur |-> r.o_alignment_dur,
                          alignment_soft |-> r.alignment_soft,
                          alignment_mas |-> r.alignment_mas]
               /\ UNCHANGED self

\* per-unit pitch / energy values: predictions, replacements, controls
ProsodyValues == 0..MaxProsody

Optional(S) == {None} \cup {Some(v) : v \in S}

\* the pitch predictor pass without a ground-truth contour, as inference
\* makes it: every prediction, control and replacement
ForwardPitchPredictor ==
    /\ call = Idle
    /\ \E T_en \in 1..MaxProsodyLen :
       \E o_pitch_hat \in Rows(T_en, ProsodyValues),
          pitch_control \in Optional(ProsodyValues),
          pitch_replace \in Optional({<<row>> : row \in Rows(T_en, ProsodyValues)}) :
           /\ call' =
                 LET r == _forward_pitch_predictor(<<o_pitch_hat>>, None, None, pitch_control, pitch_replace)
                 IN  [op |-> "_forward_pitch_predictor", predicted |-> <<o_pitch_hat>>,
                      control |-> pitch_control, replace |-> pitch_replace,
                      embedding |-> r[1], returned |-> r[2], emb |-> "pitch"]
           /\ UNCHANGED self

\* the energy predictor pass without a ground-truth contour
ForwardEnergyPredictor ==
    /\ call = Idle
    /\ \E T_en \in 1..MaxProsodyLen :
       \E o_energy_hat \in Rows(T_en, ProsodyValues),
          energy_control \in Optional(ProsodyValues),
          energy_replace \in Optional({<<row>> : row \in Rows(T_en, ProsodyValues)}) :
           /\ call' =
                 LET r == _forward_energy_predictor(<<o_energy_hat>>, None, None, energy_control, energy_replace)
                 IN  [op |-> "_forward_energy_predictor", predicted |-> <<o_energy_hat>>,
                      control |-> energy_control, replace |-> energy_replace,
                      embedding |-> r[1], returned |-> r[2], emb |-> "energy"]
           /\ UNCHANGED self

\* the length vectors of a batch and the widths at least their largest entry
LengthVectors == UNION {[1..B -> 0..MaxMaskLen] : B \in 1..MaxMaskBatch}
MaxLengths(lengths) == {None} \cup {Some(w) : w \in SeqMax(lengths)..MaxMaskLen}

\* sequence_mask(lengths, max_len) as forward, inference and the decoder
\* pass call it: with the padded width, or with None
SequenceMask ==
    /\ call = Idle
    /\ \E lengths \in LengthVectors :
       \E max_len \in MaxLengths(lengths) :
           /\ call' = [op |-> "sequence_mask", lengths |-> lengths, max_len |-> max_len,
                       mask |-> sequence_mask(lengths, max_len)]
           /\ UNCHANGED self

\* the frame-level values of a ground-truth contour
ContourValues == {0, 1, MaxContour}

\* the durations of x_len text units over y_len frames
FrameDurations(x_len, y_len) == {q \in [1..x_len -> 0..y_len] : SeqSum(q) = y_len}

\* the pitch predictor pass with a ground-truth contour and durations, as
\* forward makes it (no control, no replacement)
PitchPredictorTraining ==
    /\ call = Idle
    /\ \E x_len \in 1..MaxAvgText, y_len \in 1..MaxAvgFrames :
       \E pitch \in Rows(y_len, ContourValues), dr \in FrameDurations(x_len, y_len) :
           /\ call' =
                 Result({[op |-> "_forward_pitch_predictor",
                          predicted |-> <<[i \in 1..x_len |-> 0]>>,
                          control |-> None, replace |-> None,
                          contour |-> <<pitch>>, dr |-> <<dr>>,
                          embedding |-> r[1], returned |-> r[2], target |-> r[3],
                          emb |-> "pitch"]
                         : r \in One(_forward_pitch_predictor(<<[i \in 1..x_len |-> 0]>>,
                                         Some(<<pitch>>), Some(<<dr>>), None, None))})
           /\ UNCHANGED self

\* the energy predictor pass with a ground-truth contour and durations
EnergyPredictorTraining ==
    /\ call = Idle
    /\ \E x_len \in 1..MaxAvgText, y_len \in 1..MaxAvgFrames :
       \E energy \in Rows(y_len, ContourValues), dr \in FrameDurations(x_len, y_len) :
           /\ call' =
                 Result({[op |-> "_forward_energy_predictor",
                          predicted |-> <<[i \in 1..x_len |-> 0]>>,
                          control |-> None, replace |-> None,
                          contour |-> <<energy>>, dr |-> <<dr>>,
                          embedding |-> r[1], returned |-> r[2], target |-> r[3],
                          emb |-> "energy"]
                         : r \in One(_forward_energy_predictor(<<[i \in 1..x_len |-> 0]>>,
                                         Some(<<energy>>), Some(<<dr>>), None, None))})
           /\ UNCHANGED self

\* the scores of an aligner that puts each frame of an item on one of its
\* text units, padded with 0 to T_en x T_de
PeakedScores(x_len, y_len, T_en, T_de) ==
    {[i \in 1..T_en |-> [t \in 1..T_de |->
        IF i <= x_len /\ t <= y_len /\ f[t] = i THEN 1 ELSE 0]] :
     f \in [1..y_len -> 1..x_len]}

\* batch["durations"] of one item: whole frames per text unit that sum to
\* the item's frame length, 0 on the padding
BatchDurations(x_len, y_len, T_en) ==
    {[i \in 1..T_en |-> IF i <= x_len THEN r[i] ELSE 0] :
     r \in {q \in [1..x_len -> 0..y_len] : SeqSum(q) = y_len}}

\* batch["pitch"] / batch["energy"] of one item: a rising and a flat
\* frame-level contour, 0 on the padding
Contours(y_len, T_de) ==
    {[t \in 1..T_de |-> IF t <= y_len THEN t ELSE 0],
     [t \in 1..T_de |-> IF t <= y_len THEN 1 ELSE 0]}

\* what the predictors return for one item in a training step: durations
\* of 0 with flat prosody, or the longest durations with rising prosody
\* (the duration predictor masks its output, log 1 on the padding)
TrainPredictions(x_len, T_en) ==
    {[o_dr_log |-> [i \in 1..T_en |-> Ln(Den)],
      o_pitch_hat |-> [i \in 1..T_en |-> 0],
      o_energy_hat |-> [i \in 1..T_en |-> 0]],
     [o_dr_log |-> [i \in 1..T_en |-> IF i <= x_len THEN Ln(MaxExp) ELSE Ln(Den)],
      o_pitch_hat |-> [i \in 1..T_en |-> IF i <= x_len THEN i ELSE 0],
      o_energy_hat |-> [i \in 1..T_en |-> IF i <= x_len THEN 1 ELSE 0]]}

\* token ids of an item of x_len text units padded to T_en
TextInput(x_len, T_en) == [i \in 1..T_en |-> IF i <= x_len THEN 1 ELSE 0]

\* the speaker inputs of a call: d-vectors, speaker ids, both or none
SpeakerInputs == [d_vectors : Optional({DVectors}), speaker_ids : Optional({SpeakerIds})]

NoSpeaker == [d_vectors |-> None, speaker_ids |-> None]

\* what the tagger returns for one sentence of an input T positions wide:
\* n tokens of w characters each, the tags taken in turn; n = 0 is a tagger
\* that returns no tags.  (On an input of one position an embedding that is
\* too wide broadcasts instead of raising; that input is not drawn.)
Sentences(T) ==
    {[k \in 1..q[1] |-> [entity |-> ((k - 1) % MaxTags) + 1, len |-> q[2]]] :
        q \in {nw \in (0..MaxTokens) \X (1..MaxWord) : T > 1 \/ nw[1] * nw[2] <= T + 1}}

\* a tagger output that covers an input of T positions exactly
Covering(T) == <<[entity |-> 1, len |-> T + 1]>>

\* train_step on a batch of one item, alone or padded beside a filler item
\* of the widest text and the longest frame length.  The batch carries
\* durations or, when the aligner is used, possibly none; it carries the
\* speaker inputs of a multi-speaker data set when the model has a speaker
\* manager.
TrainStep ==
    /\ call = Idle
    /\ \E x_len \in 1..MaxTrainText, y_len \in 1..MaxTrainFrames, batched \in BOOLEAN :
           LET T_en == IF batched THEN MaxTrainText ELSE x_len
               T_de == IF batched THEN MaxTrainFrames ELSE y_len
           IN  \E value \in IF self.use_aligner
                            THEN PeakedScores(x_len, y_len, T_en, T_de) ELSE {<<>>},
                  durations \in (IF self.use_aligner THEN {None} ELSE {}) \cup
                                {Some(row) : row \in BatchDurations(x_len, y_len, T_en)},
                  pitch \in Contours(y_len, T_de),
                  energy \in Contours(y_len, T_de),
                  predicted \in TrainPredictions(x_len, T_en),
                  speaker \in IF self.speaker_manager # None
                              THEN SpeakerInputs ELSE {NoSpeaker},
                  tokens \in IF self.use_pos_tagger THEN Sentences(T_en) ELSE {<<>>} :
               /\ call' =
                     LET both(item, filler) == IF batched THEN <<item, filler>> ELSE <<item>>
                         zero == [i \in 1..T_en |-> [t \in 1..T_de |-> 0]]
                         soft == both(value, zero)
                         batch ==
                             [text_input |-> both(TextInput(x_len, T_en), TextInput(T_en, T_en)),
                              text_lengths |-> both(x_len, T_en),
                              mel_lengths |-> both(y_len, T_de),
                              pitch |-> Some(both(pitch, [t \in 1..T_de |-> 1])),
                              energy |-> Some(both(energy, [t \in 1..T_de |-> 1])),
                              d_vectors |-> speaker.d_vectors,
                              speaker_ids |-> speaker.speaker_ids,
                              durations |->
                                  IF durations = None THEN None
                                  ELSE Some(both(Val(durations),
                                                 [i \in 1..T_en |-> IF i = 1 THEN T_de ELSE 0]))]
                         net == [o_dr_log |-> both(predicted.o_dr_log, [i \in 1..T_en |-> Ln(Den)]),
                                 o_pitch_hat |-> both(predicted.o_pitch_hat, [i \in 1..T_en |-> 0]),
                                 o_energy_hat |-> both(predicted.o_energy_hat, [i \in 1..T_en |-> 0]),
                                 alignment_soft |->
                                     IF self.use_aligner
                                     THEN [b \in 1..Len(soft) |-> transpose(soft[b], T_de)]
                                     ELSE <<>>,
                                 predictions |-> both(tokens, Covering(T_en))]
                     IN  Result({[op |-> "train_step", batch |-> batch, net |-> net,
                                  raised |-> r.raised,
                                  outputs |-> r.outputs, criterion |-> r.criterion,
                                  duration_error |-> r.duration_error,
                                  calls |-> r.calls]
                                 : r \in One(train_step(self, batch, net))})
               /\ UNCHANGED self

\* the log-scale outputs of the duration predictor drawn for inference:
\* durations below 0, of 0, between 0 and 1, of 1 and the longest
InferenceLogValues == {Ln(1), Ln(Den), Ln(Den + 1), Ln(2 * Den), Ln(MaxExp)}

\* the keys of the default aux_input of inference, and the keys it reads
DefaultAuxKeys == {"d_vectors", "speaker_ids", "pitch_control"}
AuxKeys == DefaultAuxKeys \cup {"pitch_replace", "energy_control", "energy_replace"}

\* the aux_input dictionaries drawn for inference on a [B, T_en] input:
\* the keys of the signature's default with every speaker input (none in
\* the default itself), every choice of a control of 1 and a replacement by
\* the largest value for pitch and for energy, and every speaker input
\* without controls
AuxInputs(B, T_en) ==
    LET full == [b \in 1..B |-> [i \in 1..T_en |-> MaxProsody]]
    IN  {[k \in DefaultAuxKeys |->
            IF k = "d_vectors" THEN speaker.d_vectors
            ELSE IF k = "speaker_ids" THEN speaker.speaker_ids
            ELSE None] : speaker \in SpeakerInputs} \cup
        {[k \in AuxKeys |->
            IF k = "d_vectors" THEN speaker.d_vectors
            ELSE IF k = "speaker_ids" THEN speaker.speaker_ids
            ELSE None] : speaker \in SpeakerInputs} \cup
        {[k \in AuxKeys |->
            IF k = "pitch_control" THEN pc
            ELSE IF k = "pitch_replace" THEN pr
            ELSE IF k = "energy_control" THEN ec
            ELSE IF k = "energy_replace" THEN er
            ELSE None] :
         pc \in Optional({1}), pr \in Optional({full}),
         ec \in Optional({1}), er \in Optional({full})}

\* inference on one item, alone or padded beside a filler item of the full
\* width; the predictors see every position, padded or not
Inference ==
    /\ call = Idle
    /\ \E T_en \in 1..MaxInfLen, batched \in BOOLEAN :
       \E x_len \in IF batched THEN 1..T_en ELSE {T_en},
          row \in Rows(T_en, InferenceLogValues),
          aux_input \in AuxInputs(IF batched THEN 2 ELSE 1, T_en),
          tokens \in IF self.use_pos_tagger THEN Sentences(T_en) ELSE {<<>>} :
           /\ call' =
                 LET both(item, filler) == IF batched THEN <<item, filler>> ELSE <<item>>
                     x == both(TextInput(x_len, T_en), TextInput(T_en, T_en))
                     net == [o_dr_log |-> both(row, [i \in 1..T_en |-> Ln(Den)]),
                             o_pitch_hat |-> both([i \in 1..T_en |-> i], [i \in 1..T_en |-> 0]),
                             o_energy_hat |-> both([i \in 1..T_en |-> 1], [i \in 1..T_en |-> 0]),
                             predictions |-> both(tokens, Covering(T_en))]
                 IN  Result({[op |-> "inference", x |-> x, aux_input |-> aux_input,
                              net |-> net, o_dr_log |-> net.o_dr_log,
                              raised |-> r.raised, outputs |-> r.outputs,
                              calls |-> r.calls]
                             : r \in One(inference(self, x, aux_input, net))})
           /\ UNCHANGED self

\* the configurations drawn for construction: ForwardTTSArgs' defaults with
\* every choice of aligner, tagger and speaker conditioning
Configs ==
    [max_duration : {DefaultMaxDuration},
     length_scale : {Fx(1)},
     use_aligner : BOOLEAN,
     use_pitch : {TRUE},
     use_energy : {TRUE},
     use_pos_tagger : BOOLEAN,
     use_d_vector_file : BOOLEAN,
     use_speaker_embedding : BOOLEAN,
     d_vector_dim : {DVectorDim},
     binary_align_loss_start_step : {StartStep}]

\* the speaker manager handed to the constructor
SpeakerManager == [num_speakers |-> 2]

\* ForwardTTS(config, speaker_manager): a model object is built and becomes
\* the model the later calls are made on, or the constructor raises and the
\* model at hand stays
Construct ==
    /\ call = Idle
    /\ \E config \in Configs, speaker_manager \in Optional({SpeakerManager}) :
          LET r == __init__(config, speaker_manager)
          IN  /\ call' = [op |-> "__init__", config |-> config,
                          speaker_manager |-> speaker_manager, raised |-> r.raised]
              /\ self' = IF r.raised # None THEN self ELSE Val(r.self)

\* the trainer starts a step: on_train_step_start(trainer)
OnTrainStepStart ==
    /\ call = Idle
    /\ \E total_steps_done \in 0..MaxSteps :
          /\ call' = [op |-> "on_train_step_start", total_steps_done |-> total_steps_done]
          /\ self' = on_train_step_start(self, total_steps_done)

\* a call returns: its tensors are call-scoped, the model object is kept
Return ==
    /\ call # Idle
    /\ call' = Idle
    /\ UNCHANGED self

Next ==
    \/ GenerateAttn
    \/ ExpandEncoderOutputs
    \/ FormatDurations
    \/ ForwardAligner
    \/ ForwardPitchPredictor
    \/ ForwardEnergyPredictor
    \/ PitchPredictorTraining
    \/ EnergyPredictorTraining
    \/ SequenceMask
    \/ TrainStep
    \/ Inference
    \/ Construct
    \/ OnTrainStepStart
    \/ Return

Spec == Init /\ [][Next]_vars

\* the model built from the default configuration
InitDefault ==
    /\ self = DefaultModel
    /\ call = Idle

\* alignment search and duration expansion on the default model
SpecAlign ==
    InitDefault /\ [][GenerateAttn \/ ExpandEncoderOutputs \/ ForwardAligner \/ Return]_vars

\* ------------------------------------------------------------------- C1
\* a call that built a map from durations
IsExpansion == call.op \in {"generate_attn", "expand_encoder_outputs"}

\* d is a valid duration vector: non-negative integers, 0 outside text_mask
ValidDurations(d, x_mask_b) ==
    \A i \in 1..Len(d) :
        /\ d[i] >= 0
        /\ d[i] % Den = 0
        /\ (x_mask_b[i] = 0 => d[i] = 0)

\* the in-mask frames of item b: those of the supplied frame mask, or the
\* first max(sum(d), 1) frames when generate_attn derives the mask
InMaskFrames(b) ==
    IF call.y_mask = None
    THEN LET n == SeqSum(call.dr[b]) \div Den IN 1..(IF n < 1 THEN 1 ELSE n)
    ELSE {t \in 1..Len(Val(call.y_mask)[b]) : Val(call.y_mask)[b][t] = 1}

RowsSumToDurations(b) ==
    \A i \in 1..Len(call.dr[b]) :
        call.x_mask[b][i] = 1 => Fx(RowSum(call.attn[b], i)) = call.dr[b][i]

MapSumsToDurations(b) == Fx(MapSum(call.attn[b])) = SeqSum(call.dr[b])

ColumnsSumToOne(b) == \A t \in InMaskFrames(b) : ColSum(call.attn[b], t) = 1

\* Scenario B: d = [2,0,1], text_mask = [1,1,1]
ScenarioB(b) ==
    /\ call.dr[b] = <<Fx(2), 0, Fx(1)>>
    /\ call.x_mask[b] = <<1, 1, 1>>

ScenarioBMap(b) ==
    /\ InMaskFrames(b) = 1..3
    /\ call.attn[b] = << <<1, 1, 0>>, <<0, 0, 0>>, <<0, 0, 1>> >>

\* the frame mask is derived by generate_attn, or covers exactly sum(d) frames
FrameMaskFitsDurations(b) ==
    \/ call.y_mask = None
    \/ Fx(Cardinality(InMaskFrames(b))) = SeqSum(call.dr[b])

\* C1 as stated: for every valid duration vector the map has column sum 1 at
\* every in-mask frame, row i sums to d[i] at every in-mask row, and the
\* entries sum to sum(d).
C1_AsStated ==
    IsExpansion =>
        \A b \in 1..Len(call.dr) :
            ValidDurations(call.dr[b], call.x_mask[b]) =>
                /\ ColumnsSumToOne(b)
                /\ RowsSumToDurations(b)
                /\ MapSumsToDurations(b)

\* C1 (amended): for every valid duration vector d, when generate_attn derives
\* the frame mask or is given one of exactly sum(d) frames, row i of the map
\* sums to d[i] at every in-mask row and the entries sum to sum(d); every
\* in-mask frame column sums to 1 when sum(d) >= 1; and d = [2,0,1] with
\* text_mask = [1,1,1] gives 3 frames and [[1,1,0],[0,0,0],[0,0,1]].
C1_ExpansionSums ==
    IsExpansion =>
        \A b \in 1..Len(call.dr) :
            (ValidDurations(call.dr[b], call.x_mask[b]) /\ FrameMaskFitsDurations(b)) =>
                /\ RowsSumToDurations(b)
                /\ MapSumsToDurations(b)
                /\ (SeqSum(call.dr[b]) >= Fx(1) => ColumnsSumToOne(b))
                /\ (ScenarioB(b) => ScenarioBMap(b))

\* generate_attn has expanded d = [2,0,1] over three frames
C1_Witness ==
    /\ call.op = "generate_attn"
    /\ ScenarioB(1)
    /\ ScenarioBMap(1)

\* ------------------------------------------------------------- C2 C7 C8
IsSearch == call.op = "_forward_aligner"

\* unit i is the assignee of frame t in map
Assigned(map, i, t) == map[i][t] = 1

\* the assigned unit never decreases as the frame increases
NoCrossing(map) ==
    \A i, k \in 1..Len(map) :
        \A t, u \in 1..Len(map[1]) :
            (Assigned(map, i, t) /\ Assigned(map, k, u) /\ u > t) => k >= i

\* C2: in every map of MonotonicAlignmentSearch (_forward_aligner) and of
\* DurationExpansion (generate_attn), if unit i is the assignee of frame j
\* then no unit i' < i is the assignee of a frame j' > j.
C2_NoCrossing ==
    /\ IsExpansion => \A b \in 1..Len(call.attn) : NoCrossing(call.attn[b])
    /\ IsSearch => \A b \in 1..Len(call.alignment_mas) : NoCrossing(call.alignment_mas[b])

\* the search has given the first frames to unit 1 and a later frame to
\* unit 2 although unit 2 scores best on the first frame
C2_Witness ==
    /\ IsSearch
    /\ call.alignment_soft[1] = << <<0, 1, 0>>, <<1, 0, 1>> >>
    /\ call.alignment_mas[1] = << <<1, 1, 0>>, <<0, 0, 1>> >>

\* C7: the hard map of _forward_aligner has exactly one 1 in every in-mask
\* frame column, none in padded rows or columns, and the durations derived
\* from it sum per item to the item's frame length y_length.
C7_OnePerFrame ==
    IsSearch =>
        \A b \in 1..Len(call.alignment_mas) :
            LET map == call.alignment_mas[b]
            IN  /\ \A i \in 1..Len(map) : \A t \in 1..Len(map[i]) : map[i][t] \in {0, 1}
                /\ \A t \in 1..Len(call.y_mask[b]) :
                      IF call.y_mask[b][t] = 1
                      THEN ColSum(map, t) = 1
                      ELSE ColSum(map, t) = 0
                /\ \A i \in 1..Len(map) : call.x_mask[b][i] = 0 => RowSum(map, i) = 0
                /\ SeqSum(call.o_alignment_dur[b]) = call.y_lengths[b]

\* an item with a padded text row and a padded frame column, searched
C7_Witness ==
    /\ IsSearch
    /\ Len(call.x_mask) = 2
    /\ call.x_lengths[1] < Len(call.x_mask[1])
    /\ call.y_lengths[1] < Len(call.y_mask[1])
    /\ call.y_lengths[1] >= 2
    /\ SeqSum(call.o_alignment_dur[1]) = call.y_lengths[1]

\* the monotonic paths of an item of t_x units and t_y frames: from unit 1
\* to unit t_x, each frame staying or advancing by one
MonotonicPaths(t_x, t_y) ==
    {f \in [1..t_y -> 1..t_x] :
        /\ f[1] = 1
        /\ f[t_y] = t_x
        /\ \A t \in 1..(t_y - 1) : f[t + 1] - f[t] \in {0, 1}}

PathScore(value, f) == SeqSum([t \in 1..Len(f) |-> value[f[t]][t]])

\* the unit the hard map gives frame t (0 when it gives none)
ChosenUnit(map, t) ==
    IF \E i \in 1..Len(map) : map[i][t] = 1
    THEN CHOOSE i \in 1..Len(map) : map[i][t] = 1
    ELSE 0

\* C8: for every score matrix with T_frame >= T_text the path chosen by the
\* search starts at text index 0, ends at text index T_text - 1, is a
\* stay-or-advance path, and its total score is the maximum over all such
\* paths; among the paths of maximum score it is the one that stays: at the
\* last frame where another of them differs, the chosen path is at the
\* higher unit.
C8_MaximumPath ==
    IsSearch =>
        \A b \in 1..Len(call.alignment_mas) :
            LET t_x == call.x_lengths[b]
                t_y == call.y_lengths[b]
                value == call.alignment_soft[b]
                chosen == [t \in 1..t_y |-> ChosenUnit(call.alignment_mas[b], t)]
            IN  t_y >= t_x =>
                    /\ chosen \in MonotonicPaths(t_x, t_y)
                    /\ \A f \in MonotonicPaths(t_x, t_y) :
                          /\ PathScore(value, f) <= PathScore(value, chosen)
                          /\ (PathScore(value, f) = PathScore(value, chosen) /\ f # chosen) =>
                                LET last == CHOOSE t \in 1..t_y :
                                              /\ f[t] # chosen[t]
                                              /\ \A u \in (t + 1)..t_y : f[u] = chosen[u]
                                IN  chosen[last] > f[last]

\* a search with two paths of different scores: unit 1 scores on frame 2,
\* and the path advances only at frame 3
C8_Witness ==
    /\ IsSearch
    /\ Len(call.alignment_mas) = 1
    /\ call.alignment_soft[1] = << <<0, 1, 0>>, <<0, 0, 0>> >>
    /\ call.alignment_mas[1] = << <<1, 1, 0>>, <<0, 0, 1>> >>

\* ------------------------------------------------------------- C3 C4 C5
\* every length scale and maximum duration, the other fields as by default
InitScaled ==
    /\ self \in {m \in Models : /\ m.use_aligner = DefaultModel.use_aligner
                                /\ m.use_pitch = DefaultModel.use_pitch
                                /\ m.use_energy = DefaultModel.use_energy}
    /\ call = Idle

\* the inference duration formula on its own
SpecDurations == InitScaled /\ [][FormatDurations \/ Return]_vars

\* (exp(log_pred) - 1) * length_scale at position i of item 1, in 1 / Den^2
ScaledDuration(i) == (exp(call.o_dr_log[1][i]) - Den) * self.length_scale

\* max(exp(log_pred) - 1, 1) * length_scale at position i, in 1 / Den^2
FlooredThenScaled(i) ==
    LET e == exp(call.o_dr_log[1][i]) - Den
    IN  (IF e < Den THEN Den ELSE e) * self.length_scale

\* d is the integer nearest to n / Den^2, a half going to the even neighbour
IsRounded(d, n) ==
    /\ 2 * d * Den * Den - 2 * n <= Den * Den
    /\ 2 * n - 2 * d * Den * Den <= Den * Den
    /\ (2 * d * Den * Den - 2 * n \in {Den * Den, 0 - Den * Den} => d % 2 = 0)

\* C3 as stated: each in-mask duration is round(max(exp(log_pred) - 1, 1) *
\* length_scale), the minimum of 1 applied before the length scale.
C3_AsStated ==
    call.op = "format_durations" =>
        \A i \in 1..Len(call.o_dr[1]) :
            call.x_mask[1][i] = 1 => IsRounded(call.o_dr[1][i], FlooredThenScaled(i))

\* C3 (amended): each in-mask duration is round(max((exp(log_pred) - 1) *
\* length_scale, 1)): the length scale is applied first, then the minimum of
\* 1, and the rounding (halves to even) comes last.
C3_ScaleFloorRound ==
    call.op = "format_durations" =>
        \A i \in 1..Len(call.o_dr[1]) :
            call.x_mask[1][i] = 1 =>
                IF ScaledDuration(i) < Den * Den
                THEN call.o_dr[1][i] = 1
                ELSE IsRounded(call.o_dr[1][i], ScaledDuration(i))

\* an in-mask unit whose duration depends on the order: scaled below 1 and
\* raised to 1, where the minimum taken first would give another value
C3_Witness ==
    /\ call.op = "format_durations"
    /\ \E i \in 1..Len(call.o_dr[1]) :
          /\ call.x_mask[1][i] = 1
          /\ self.length_scale # Fx(1)
          /\ call.o_dr[1][i] = 1
          /\ ~IsRounded(1, FlooredThenScaled(i))

\* C4 as stated: the duration is 0 at every position whose text_mask entry
\* is 0.
C4_AsStated ==
    call.op = "format_durations" =>
        \A i \in 1..Len(call.o_dr[1]) :
            call.x_mask[1][i] = 0 => call.o_dr[1][i] = 0

\* C5 as stated: every in-mask inference duration d is an integer with
\* 1 <= d <= max_duration.
C5_AsStated ==
    call.op = "format_durations" =>
        \A i \in 1..Len(call.o_dr[1]) :
            call.x_mask[1][i] = 1 =>
                /\ call.o_dr[1][i] \in Int
                /\ 1 <= call.o_dr[1][i]
                /\ call.o_dr[1][i] <= self.max_duration

\* ------------------------------------------------------------------- C6
\* the pitch and energy predictor passes on the default model
SpecProsody == InitDefault /\ [][ForwardPitchPredictor \/ ForwardEnergyPredictor \/ Return]_vars

IsProsodyPass == call.op \in {"_forward_pitch_predictor", "_forward_energy_predictor"}

\* the value the precedence replacement > control > raw prediction selects
Precedence ==
    IF call.replace # None THEN Val(call.replace)
    ELSE IF call.control # None
         THEN [b \in 1..Len(call.predicted) |->
                 [i \in 1..Len(call.predicted[b]) |-> call.predicted[b][i] + Val(call.control)]]
         ELSE call.predicted

\* C6: without a ground-truth contour the value embedded and returned is the
\* replacement when one is supplied (also with a control), otherwise the
\* prediction plus the control when a control is supplied, otherwise the raw
\* prediction; for the pitch and for the energy predictor.
C6_ControlPrecedence ==
    IsProsodyPass =>
        /\ call.returned = Precedence
        /\ call.embedding = [emb |-> call.emb, of |-> Precedence]

\* a pass given both a control and a replacement that differs from the
\* controlled prediction
C6_Witness ==
    /\ call.op = "_forward_pitch_predictor"
    /\ call.control # None
    /\ call.replace # None
    /\ Val(call.control) # 0
    /\ call.returned = Val(call.replace)
    /\ \E i \in 1..Len(call.predicted[1]) :
          call.returned[1][i] # call.predicted[1][i] + Val(call.control)

\* ------------------------------------------------------------------- C9
\* the default model with and without the aligner, the pitch predictor and
\* the energy predictor
InitTrain ==
    /\ self \in {m \in Models : /\ m.max_duration = DefaultModel.max_duration
                                /\ m.length_scale = DefaultModel.length_scale}
    /\ call = Idle

\* training steps
SpecTrain == InitTrain /\ [][TrainStep \/ Return]_vars

IsTrainStep == call.op = "train_step"

\* the row sums of the search's map, which forward returns as
\* [B, T_de, T_en]: the frames of each text unit
MasDurations ==
    LET mas == Val(call.outputs.alignment_mas)
    IN  [b \in 1..Len(mas) |->
            [i \in 1..Len(call.batch.text_input[b]) |-> ColSum(mas[b], i)]]

\* the targets of the pitch and energy predictors are the contours averaged
\* over the durations d
UsedForAveraging(d) ==
    /\ self.use_pitch =>
          Val(call.outputs.pitch_avg_gt) = average_over_durations(Val(call.batch.pitch), d)
    /\ self.use_energy =>
          Val(call.outputs.energy_avg_gt) = average_over_durations(Val(call.batch.energy), d)

\* the returned map and the frames the decoder was given are the expansion
\* of the durations d
UsedForExpansion(d) ==
    LET attn == Evaluated(generate_path(ToFloat(d),
                    outer_mask(call.outputs.x_mask, call.outputs.y_mask)))
    IN  \A b \in 1..Len(d) :
            /\ call.outputs.alignments[b] = transpose(attn[b], Len(call.outputs.y_mask[b]))
            /\ \A t \in 1..Len(call.outputs.y_mask[b]) :
                  call.outputs.model_outputs.o_en_ex.unit[b][t] =
                      SeqSum([i \in 1..Len(d[b]) |-> attn[b][i][t] * i])

\* the duration predictor's target in the loss is d
UsedAsTarget(d) == call.criterion.dur_target = d

\* C9: in a training step with the aligner the durations used for the
\* pitch / energy averaging, for the expansion and as the target of the
\* duration loss are the row sums of the search's map, whatever durations
\* the batch carries; without the aligner they are the batch's durations.
C9_StepDurations ==
    IsTrainStep =>
        LET d == Evaluated(IF self.use_aligner THEN MasDurations ELSE Val(call.batch.durations))
        IN  /\ UsedForAveraging(d)
            /\ UsedForExpansion(d)
            /\ UsedAsTarget(d)

\* a step with the aligner, pitch and energy on a batch whose durations are
\* not the ones the search found
C9_Witness ==
    /\ IsTrainStep
    /\ self.use_aligner /\ self.use_pitch /\ self.use_energy
    /\ call.batch.durations # None
    /\ Val(call.batch.durations) # MasDurations
    /\ call.criterion.dur_target = MasDurations
    /\ average_over_durations(Val(call.batch.pitch), Val(call.batch.durations))
          # Val(call.outputs.pitch_avg_gt)

\* ------------------------------------------------------------------ C10
\* the default model at half and at full speed
InitInference ==
    /\ self \in {[DefaultModel EXCEPT !.length_scale = s] : s \in {1, Fx(1)}}
    /\ call = Idle

\* the frame mask derived from durations, and inference
SpecNeverEmpty == InitInference /\ [][GenerateAttn \/ Inference \/ Return]_vars

\* max(sum(durations), 1) in whole frames
FrameLength(row) ==
    LET s == SeqSum(row) \div Den IN IF s >= 1 THEN s ELSE 1

\* generate_attn derived the frame mask of item b: the map is as wide as
\* the longest item and item b has nothing beyond its own frame length
DerivedFrames(b) ==
    \A i \in 1..Len(call.attn[b]) :
        /\ Len(call.attn[b][i]) = SeqMax([c \in 1..Len(call.dr) |-> FrameLength(call.dr[c])])
        /\ \A t \in 1..Len(call.attn[b][i]) :
              t > FrameLength(call.dr[b]) => call.attn[b][i][t] = 0

IsInference == call.op = "inference"

\* the in-mask frames of item b of an inference output
OutputFrames(b) == SeqSum(Val(call.outputs).model_outputs.y_mask[b])

\* C10: when generate_attn derives the frame mask, the frame length of each
\* item is max(sum(durations), 1), the sum taken in whole frames; and every
\* inference call that returns an output returns at least 1 frame for each
\* item of the batch, each frame read at one text unit.
C10_NeverEmpty ==
    /\ (call.op = "generate_attn" /\ call.y_mask = None) =>
          \A b \in 1..Len(call.dr) : DerivedFrames(b)
    /\ (IsInference /\ call.raised = None) =>
          \A b \in 1..Len(call.x) :
              /\ OutputFrames(b) >= 1
              /\ Len(Val(call.outputs).alignments[b]) >= OutputFrames(b)
              /\ \A t \in 1..OutputFrames(b) :
                    Val(call.outputs).model_outputs.o_en_ex.unit[b][t] \in 1..Len(call.x[b])

\* an inference call whose predicted durations are all 0 returns one frame
\* for each text position
C10_Witness ==
    /\ IsInference /\ call.raised = None
    /\ \A b \in 1..Len(call.x) : \A i \in 1..Len(call.x[b]) :
          exp(call.o_dr_log[b][i]) - Den = 0
    /\ \A b \in 1..Len(call.x) : OutputFrames(b) = Len(call.x[b])

\* ------------------------------------------------------------------ C11
\* the model objects the constructor builds from a configuration with the
\* aligner and without the tagger, for every speaker conditioning
SpeakerModels ==
    {Val(r.self) :
        r \in {q \in {__init__(c, sm) : c \in {k \in Configs : k.use_aligner /\ ~k.use_pos_tagger},
                                        sm \in Optional({SpeakerManager})} :
                  q.raised = None}}

InitSpeaker ==
    /\ self \in SpeakerModels
    /\ call = Idle

\* training steps and inference on single- and multi-speaker models
SpecSpeaker == InitSpeaker /\ [][TrainStep \/ Inference \/ Return]_vars

\* a call of forward (made by train_step) or of inference
IsForwardPass == call.op \in {"train_step", "inference"}

\* the speaker inputs the call was given
GivenDVectors ==
    IF call.op = "train_step" THEN call.batch.d_vectors ELSE Get(call.aux_input, "d_vectors")

GivenSpeakerIds ==
    IF call.op = "train_step" THEN call.batch.speaker_ids ELSE Get(call.aux_input, "speaker_ids")

\* the cases in which the speaker check fails
SpeakerCheckFails ==
    \/ GivenDVectors # None /\ GivenSpeakerIds # None
    \/ GivenSpeakerIds # None /\ ~self.emb_g

\* the call raised in the speaker check: no output, no network invoked
FailedInSpeakerCheck ==
    /\ call.raised = Some("ValueError")
    /\ call.outputs = None
    /\ call.calls = <<>>

\* the speaker conditioning the encoder pass worked with
SpeakerTerms == {t \in {call.calls[1].o_en[k] : k \in 1..Len(call.calls[1].o_en)} :
                    t.emb = "speaker"}

\* C11: a call of forward or inference given both d-vectors and speaker
\* ids, or given speaker ids on a model without embedding table, raises in
\* the speaker check, before anything else is done, and returns no output;
\* in every other case the check passes and hands on the speaker ids if
\* given, else the d-vectors, else nothing.
C11_SpeakerCheck ==
    IsForwardPass =>
        /\ SpeakerCheckFails => FailedInSpeakerCheck
        /\ ~SpeakerCheckFails =>
              /\ call.raised # Some("ValueError")
              /\ call.raised = None =>
                    SpeakerTerms =
                        IF GivenSpeakerIds # None THEN {speaker_emb(Val(GivenSpeakerIds))}
                        ELSE IF GivenDVectors # None THEN {speaker_emb(Val(GivenDVectors))}
                        ELSE {}

\* inference given speaker ids and d-vectors on a model that has the
\* embedding table, with an aux_input that lacks the keys read later
C11_Witness ==
    /\ call.op = "inference"
    /\ self.emb_g
    /\ GivenDVectors # None /\ GivenSpeakerIds # None
    /\ ~HasKeys(call.aux_input, {"pitch_replace"})
    /\ FailedInSpeakerCheck

\* ------------------------------------------------------------------ C12
\* construction of models from the default model's state
SpecConstruct == InitDefault /\ [][Construct \/ Return]_vars

IsConstruction == call.op = "__init__"

\* the configuration asks for speaker conditioning
SpeakerConditioningRequested ==
    call.config.use_d_vector_file \/ call.config.use_speaker_embedding

\* C12: the constructor raises whenever the configuration asks for
\* d-vectors or for a speaker embedding and no speaker manager is given,
\* and never raises that error when the configuration asks for neither.
C12_ConstructionFails ==
    IsConstruction =>
        /\ (SpeakerConditioningRequested /\ call.speaker_manager = None) =>
              call.raised = Some("ValueError")
        /\ ~SpeakerConditioningRequested => call.raised # Some("ValueError")

\* a configuration with a speaker embedding and no d-vectors, constructed
\* without speaker manager
C12_Witness ==
    /\ IsConstruction
    /\ call.config.use_speaker_embedding /\ ~call.config.use_d_vector_file
    /\ call.speaker_manager = None
    /\ call.raised = Some("ValueError")

\* ------------------------------------------------------------------ C13
\* inference on the default model
SpecInference == InitDefault /\ [][Inference \/ Return]_vars

\* an inference call that returned its output dictionary
InferenceReturned == IsInference /\ call.raised = None

\* what a prosody pass of inference works with after control and
\* replacement: the replacement if one is given, else the prediction with
\* the control added if one is given, else the prediction
AfterControls(predicted, control, replace) ==
    IF replace # None THEN Val(replace)
    ELSE IF control # None THEN AddControl(predicted, Val(control))
    ELSE predicted

\* C13 as stated: the 'pitch' and 'energy' entries are the outputs of the
\* predictors, whatever controls and replacements were supplied.
C13_AsStated ==
    InferenceReturned =>
        /\ self.use_pitch => Val(call.outputs).pitch = Some(call.net.o_pitch_hat)
        /\ self.use_energy => Val(call.outputs).energy = Some(call.net.o_energy_hat)

\* C13: the 'pitch' and 'energy' entries of the dictionary inference returns
\* are the values that were embedded: the replacement when one is supplied,
\* else the prediction plus the control when a control is supplied, and the
\* predictor's output only when neither is supplied.
C13_ReturnedProsody ==
    InferenceReturned =>
        /\ self.use_pitch =>
              Val(call.outputs).pitch =
                  Some(AfterControls(call.net.o_pitch_hat,
                                     call.aux_input["pitch_control"],
                                     call.aux_input["pitch_replace"]))
        /\ self.use_energy =>
              Val(call.outputs).energy =
                  Some(AfterControls(call.net.o_energy_hat,
                                     call.aux_input["energy_control"],
                                     call.aux_input["energy_replace"]))

\* inference with a pitch replacement and an energy control that returns
\* neither predictor's output
C13_Witness ==
    /\ InferenceReturned
    /\ call.aux_input["pitch_replace"] # None
    /\ call.aux_input["energy_control"] # None /\ call.aux_input["energy_replace"] = None
    /\ Val(call.outputs).pitch = call.aux_input["pitch_replace"]
    /\ Val(call.outputs).pitch # Some(call.net.o_pitch_hat)
    /\ Val(call.outputs).energy # Some(call.net.o_energy_hat)

\* ------------------------------------------------------------------ C14
\* the default model built with the tagger
InitTagger ==
    /\ self = [DefaultModel EXCEPT !.use_pos_tagger = TRUE]
    /\ call = Idle

\* training steps and inference with the tagging side channel
SpecTagger == InitTagger /\ [][TrainStep \/ Inference \/ Return]_vars

\* the padded width of the call's input
InputWidth ==
    IF call.op = "train_step" THEN Len(call.batch.text_input[1]) ELSE Len(call.x[1])

\* the positions of sentence b the returned tokens cover (the first
\* character of the concatenation is dropped)
Covered(b) ==
    IF call.net.predictions[b] = <<>> THEN 0
    ELSE Len(embedding_fine(call.net.predictions[b])) - 1

\* the tagging embedding that was added to the features the duration
\* predictor read
TaggingEmbedding ==
    LET o_en == call.calls[1].o_en
    IN  (CHOOSE t \in {o_en[k] : k \in 1..Len(o_en)} : t.emb = "pos").of

\* C14 as stated: with the tagger enabled, a call whose tagger returns no
\* tags or tags for fewer characters than the input does not fail and has
\* a zero tagging embedding at every position no token covers; and the
\* tagging embedding of a sentence always has the input's length.
C14_AsStated ==
    (IsForwardPass /\ self.use_pos_tagger) =>
        \A b \in 1..Len(call.net.predictions) :
            /\ Covered(b) < InputWidth =>
                  /\ call.raised # Some("RuntimeError")
                  /\ call.raised = None =>
                        \A i \in (Covered(b) + 1)..InputWidth :
                            TaggingEmbedding[b][i] = ZeroEmbedding
            /\ call.net.predictions[b] # <<>> =>
                  Len(p_embedding(call.net.predictions[b], InputWidth)) = InputWidth

\* ------------------------------------------------------------------ C15
\* the inference duration formula at the default length scale of 1
SpecRoundTrip == InitDefault /\ [][FormatDurations \/ Return]_vars

\* the d of position i recovered from log_pred = log(d + 1), fixed-point
RecoveredDuration(i) == exp(call.o_dr_log[1][i]) - Den

\* C15: with length_scale = 1 and log_pred = log(d + 1), format_durations
\* returns round(d) at an in-mask position with d >= 1 and 1 at an in-mask
\* position with 0 <= d < 1.
C15_RoundTrip ==
    (call.op = "format_durations" /\ self.length_scale = Fx(1)) =>
        \A i \in 1..Len(call.o_dr[1]) :
            call.x_mask[1][i] = 1 =>
                /\ RecoveredDuration(i) >= Fx(1) =>
                      IsRounded(call.o_dr[1][i], RecoveredDuration(i) * Den)
                /\ (0 <= RecoveredDuration(i) /\ RecoveredDuration(i) < Fx(1)) =>
                      call.o_dr[1][i] = 1

\* the log outputs [log(4), log(1)] give the durations [3, 1]
C15_Witness ==
    /\ call.op = "format_durations" /\ self.length_scale = Fx(1)
    /\ call.o_dr_log = << <<Ln(Fx(4)), Ln(Fx(1))>> >>
    /\ call.x_mask = << <<1, 1>> >>
    /\ call.o_dr = << <<3, 1>> >>

\* ------------------------------------------------------------------ C16
\* the prosody passes of training
SpecAverage ==
    InitDefault /\ [][PitchPredictorTraining \/ EnergyPredictorTraining \/ Return]_vars

\* a prosody pass that was given a ground-truth contour and durations
IsAveraging == IsProsodyPass /\ "contour" \in DOMAIN call

\* the frames assigned to text unit i by the durations of the call
FramesOf(i) ==
    {t \in 1..Len(call.contour[1]) :
        cumsum(call.dr[1], i - 1) < t /\ t <= cumsum(call.dr[1], i)}

\* the sum of the contour over the frames of unit i
ContourSum(i) ==
    SeqSum([t \in 1..Len(call.contour[1]) |->
               IF t \in FramesOf(i) THEN call.contour[1][t] ELSE 0])

\* C16: with a ground-truth contour and durations, the target of the pitch
\* (energy) predictor is for each text unit the sum of the contour over the
\* unit's frames divided by their number, and 0 for a unit of no frames.
C16_AveragedTarget ==
    IsAveraging =>
        \A i \in 1..Len(call.dr[1]) :
            /\ call.target[1][i].den > 0
            /\ IF FramesOf(i) = {}
               THEN call.target[1][i].num = 0
               ELSE call.target[1][i].num * Cardinality(FramesOf(i)) =
                        ContourSum(i) * call.target[1][i].den

\* the contour [1, 1, 3, 3, 3] with the durations [2, 3] gives [1.0, 3.0]
C16_Witness ==
    /\ IsAveraging /\ call.emb = "pitch"
    /\ call.contour = << <<1, 1, 3, 3, 3>> >>
    /\ call.dr = << <<2, 3>> >>
    /\ call.target = << <<Frac(1, 1), Frac(3, 1)>> >>

\* ------------------------------------------------------------------ C17
\* the masks built from length vectors
SpecMask == InitDefault /\ [][SequenceMask \/ Return]_vars

IsSequenceMask == call.op = "sequence_mask"

\* the width of the mask asked for: max_length, or the largest length
MaskWidth == IF call.max_len = None THEN SeqMax(call.lengths) ELSE Val(call.max_len)

\* C17: for non-negative lengths L and max_length >= max(L) the mask has one
\* row per item, each max_length wide, with mask[b, t] = 1 exactly when
\* t < L[b]; so row b holds L[b] ones and no 1 follows a 0.
C17_SequenceMask ==
    (IsSequenceMask /\ MaskWidth >= SeqMax(call.lengths)) =>
        /\ Len(call.mask) = Len(call.lengths)
        /\ \A b \in 1..Len(call.lengths) :
              /\ Len(call.mask[b]) = MaskWidth
              /\ \A t \in 0..(MaskWidth - 1) :
                    (call.mask[b][t + 1] = 1) <=> (t < call.lengths[b])
              /\ \A t \in 0..(MaskWidth - 1) : call.mask[b][t + 1] \in {0, 1}
              /\ SeqSum(call.mask[b]) = call.lengths[b]
              /\ \A t, u \in 1..MaskWidth :
                    (t < u /\ call.mask[b][t] = 0) => call.mask[b][u] = 0

\* lengths [3, 5] with max_length 5 give [[1,1,1,0,0], [1,1,1,1,1]]
C17_Witness ==
    /\ IsSequenceMask
    /\ call.lengths = <<3, 5>>
    /\ call.max_len = Some(5)
    /\ call.mask = << <<1, 1, 1, 0, 0>>, <<1, 1, 1, 1, 1>> >>

\* ------------------------------------------------------------------ C18
\* the default model with and without the pitch and energy predictors
InitOrder ==
    /\ self \in {[DefaultModel EXCEPT !.use_pitch = p, !.use_energy = e] :
                    p \in BOOLEAN, e \in BOOLEAN}
    /\ call = Idle

\* forward passes of training and of inference
SpecOrder == InitOrder /\ [][TrainStep \/ Inference \/ Return]_vars

\* a forward pass that returned
PassReturned == IsForwardPass /\ call.raised = None

\* the networks of the pass in the order they ran
Ran == [k \in 1..Len(call.calls) |-> call.calls[k].net]

\* whether a network ran, where in the order, and the features it read
HasRun(network) == \E k \in 1..Len(call.calls) : Ran[k] = network
Position(network) == CHOOSE k \in 1..Len(call.calls) : Ran[k] = network
FeaturesOf(network) == call.calls[Position(network)].o_en

\* the prosody embeddings among the terms of encoder features
ProsodyEmbs(o_en) ==
    {o_en[k].emb : k \in 1..Len(o_en)} \cap {"pitch", "energy"}

\* C18: in a forward pass of training or inference the duration predictor
\* runs first, on encoder features without prosody embedding; the pitch
\* predictor runs before the energy predictor and reads those features; the
\* energy predictor reads them with the pitch embedding added; the decoder
\* pass runs last, on the features with both embeddings added.
C18_Ordering ==
    PassReturned =>
        /\ Ran[1] = "duration_predictor"
        /\ Ran[Len(Ran)] = "decoder"
        /\ \A j, k \in 1..Len(Ran) : Ran[j] = Ran[k] => j = k
        /\ HasRun("pitch_predictor") <=> self.use_pitch
        /\ HasRun("energy_predictor") <=> self.use_energy
        /\ ProsodyEmbs(FeaturesOf("duration_predictor")) = {}
        /\ HasRun("pitch_predictor") =>
              /\ Position("duration_predictor") < Position("pitch_predictor")
              /\ FeaturesOf("pitch_predictor") = FeaturesOf("duration_predictor")
        /\ HasRun("energy_predictor") =>
              /\ Position("duration_predictor") < Position("energy_predictor")
              /\ HasRun("pitch_predictor") =>
                    /\ Position("pitch_predictor") < Position("energy_predictor")
                    /\ Len(FeaturesOf("energy_predictor")) =
                           Len(FeaturesOf("pitch_predictor")) + 1
                    /\ SubSeq(FeaturesOf("energy_predictor"), 1,
                              Len(FeaturesOf("pitch_predictor"))) =
                           FeaturesOf("pitch_predictor")
              /\ ProsodyEmbs(FeaturesOf("energy_predictor")) =
                     IF self.use_pitch THEN {"pitch"} ELSE {}
        /\ ProsodyEmbs(FeaturesOf("decoder")) =
               (IF self.use_pitch THEN {"pitch"} ELSE {}) \cup
               (IF self.use_energy THEN {"energy"} ELSE {})

\* a training step that ran every network, the aligner included
C18_Witness ==
    /\ PassReturned /\ call.op = "train_step"
    /\ Ran = <<"duration_predictor", "aligner", "pitch_predictor",
               "energy_predictor", "decoder">>
    /\ ProsodyEmbs(FeaturesOf("energy_predictor")) = {"pitch"}
    /\ ProsodyEmbs(FeaturesOf("decoder")) = {"pitch", "energy"}

\* ------------------------------------------------------------------ C19
\* the value a prosody embedding of the decoder's features embeds
Embedded(kind) ==
    LET o_en == FeaturesOf("decoder")
    IN  o_en[CHOOSE k \in 1..Len(o_en) : o_en[k].emb = kind].of

TrainStepReturned == PassReturned /\ call.op = "train_step"

\* the ground-truth contour averaged over the durations the step trains on
AveragedGroundTruth(contour) ==
    average_over_durations(Val(contour), call.criterion.dur_target)

\* C19: a training step with ground-truth contours embeds and adds to the
\* encoder features the averaged ground-truth target, and returns the
\* predictor's output as 'pitch_avg' ('energy_avg') and the averaged target
\* as 'pitch_avg_gt' ('energy_avg_gt'); inference, which has no contour,
\* embeds the prediction after replacement and control.
C19_EmbeddedValue ==
    /\ TrainStepReturned =>
          /\ self.use_pitch =>
                /\ call.outputs.pitch_avg = Some(call.net.o_pitch_hat)
                /\ call.outputs.pitch_avg_gt =
                       Some(AveragedGroundTruth(call.batch.pitch))
                /\ Embedded("pitch") = Val(call.outputs.pitch_avg_gt)
          /\ self.use_energy =>
                /\ call.outputs.energy_avg = Some(call.net.o_energy_hat)
                /\ call.outputs.energy_avg_gt =
                       Some(AveragedGroundTruth(call.batch.energy))
                /\ Embedded("energy") = Val(call.outputs.energy_avg_gt)
    /\ InferenceReturned =>
          /\ self.use_pitch =>
                Embedded("pitch") =
                    AfterControls(call.net.o_pitch_hat,
                                  call.aux_input["pitch_control"],
                                  call.aux_input["pitch_replace"])
          /\ self.use_energy =>
                Embedded("energy") =
                    AfterControls(call.net.o_energy_hat,
                                  call.aux_input["energy_control"],
                                  call.aux_input["energy_replace"])

\* a training step whose pitch predictor's output differs from the averaged
\* target that was embedded
C19_Witness ==
    /\ TrainStepReturned /\ self.use_pitch /\ self.use_energy
    /\ Embedded("pitch") = Val(call.outputs.pitch_avg_gt)
    /\ \E i \in 1..Len(call.net.o_pitch_hat[1]) :
          /\ call.net.o_pitch_hat[1][i] = 0
          /\ Embedded("pitch")[1][i].num > 0

\* ------------------------------------------------------------------ C20
\* the default model, with and without aligner, as constructed
InitLatch ==
    /\ self \in {[DefaultModel EXCEPT !.use_aligner = a] : a \in BOOLEAN}
    /\ call = Idle

\* training: the trainer's step hook and the training steps
SpecLatch == InitLatch /\ [][OnTrainStepStart \/ TrainStep \/ Return]_vars

\* every model that construction gives has the flag off
OffAtConstruction ==
    \A config \in Configs, speaker_manager \in {None, Some(SpeakerManager)} :
        \A built \in __init__(config, speaker_manager).self :
            built.use_binary_alignment_loss = FALSE

\* a step changes the flag only in on_train_step_start, which turns it on
\* when total_steps_done is above the start step and else leaves it
LatchStep ==
    /\ self.use_binary_alignment_loss => self'.use_binary_alignment_loss
    /\ call'.op # "on_train_step_start" =>
          self'.use_binary_alignment_loss = self.use_binary_alignment_loss
    /\ call'.op = "on_train_step_start" =>
          self'.use_binary_alignment_loss =
              (\/ self.use_binary_alignment_loss
               \/ call'.total_steps_done > self.binary_align_loss_start_step)

\* train_step hands the criterion the soft and hard alignments of the
\* forward pass when the flag is on, and None for both when it is off
AlignmentsPassed ==
    TrainStepReturned =>
        /\ call.criterion.alignment_soft =
               IF self.use_binary_alignment_loss
               THEN call.outputs.alignment_soft ELSE None
        /\ call.criterion.alignment_hard =
               IF self.use_binary_alignment_loss
               THEN call.outputs.alignment_mas ELSE None
        /\ self.use_aligner =>
              /\ call.criterion.alignment_soft # None <=> self.use_binary_alignment_loss
              /\ call.criterion.alignment_hard # None <=> self.use_binary_alignment_loss

\* C20: the binary-alignment-loss flag is off at construction, is turned on
\* by on_train_step_start only when total_steps_done > the start step, is
\* never turned off, and train_step passes the soft and hard alignments to
\* the criterion exactly when it is on (None for both otherwise).
C20_Latch ==
    /\ self.use_binary_alignment_loss = FALSE
    /\ [](OffAtConstruction /\ AlignmentsPassed)
    /\ [][LatchStep]_vars

\* a training step after the flag was turned on, handing over both alignments
C20_Witness ==
    /\ TrainStepReturned
    /\ self.use_aligner /\ self.use_binary_alignment_loss
    /\ call.criterion.alignment_soft # None
    /\ call.criterion.alignment_hard # None

\* ------------------------------------------------------------------ C21
\* the frames inference gave text position i of item b: the frames of the
\* returned alignment that read position i
UnitFrames(b, i) ==
    SeqSum([t \in 1..Len(Val(call.outputs).alignments[b]) |->
               Val(call.outputs).alignments[b][t][i]])

\* the durations of the predicted log-durations with every position of the
\* padded width in-mask
UnmaskedDurations ==
    format_durations(self.length_scale, call.o_dr_log, <<Ones(Len(call.x[1]))>>)

OptionalKeys == {"pitch_control", "pitch_replace", "energy_control", "energy_replace"}

\* an inference call whose aux_input lacks optional keys and whose speaker
\* inputs pass the speaker check
LacksOptionalKeys ==
    /\ IsInference
    /\ ~(OptionalKeys \subseteq DOMAIN call.aux_input)
    /\ ~SpeakerCheckFails

\* C22 as stated: inference with an aux_input that lacks optional keys, the
\* default of the signature included, completes without error and returns
\* the predictors' outputs, as it does when the keys are present with None.
C22_AsStated ==
    LacksOptionalKeys =>
        /\ call.raised = None
        /\ self.use_pitch => Val(call.outputs).pitch = Some(call.net.o_pitch_hat)
        /\ self.use_energy => Val(call.outputs).energy = Some(call.net.o_energy_hat)

====
